---------------------------- MODULE Spec2Model ----------------------------
(***************************************************************************)
(* H1-type stateful bus encoder (ADuC841): transmitter firmware (UART ISR, *)
(* main loop, tx_handler, process_nibble, bit-banged shift-register        *)
(* output), the shift-register chain it drives, the receiver's bus         *)
(* sampling and decode, and the block-variant transmit_X_to_shift_reg.     *)
(***************************************************************************)
EXTENDS Integers, Naturals, Sequences, FiniteSets, TLC

(* ------------------------------ bounds -------------------------------- *)
\* UART bytes the host sends in one run of the fine-grained specification
MaxBytes == 2
\* receiver sampling ticks in one run
MaxSamples == 1
\* process_nibble calls in one run of the call-level specification
MaxCalls == 4
\* transmit_X_to_shift_reg calls, and the longest vector they are given
MaxXCalls == 1
MaxXBits == 3
\* set lines of the bus states a single process_nibble call is applied to
MaxBusWeight == 2
\* characters handed to tx_handler in one run of its counter
MaxChars == 130
\* transmitter steps that fit between the receiver's two adjacent port reads
MaxTxStepsBetweenReads == 8

(* -------------------------- program constants ------------------------- *)
HAMMING_N == 15
HAMMING_R == 4
BUS_STATE_MASK == 32767
\* header.h: #define MAX_BLOCKS 4
MAX_BLOCKS == 4
CR == 13
LF == 10

\* bytes the host sends in the fine-grained specification: a terminator and
\* data characters whose nibbles toggle lines on P2, on P3.5-P3.7 and
\* above line 10
Bytes == {CR, 57, 255}

(* ------------------------- machine arithmetic -------------------------- *)
Bit(x, j) == (x \div (2 ^ j)) % 2

RECURSIVE XorBits(_, _, _)
XorBits(a, b, n) ==
    IF n = 0 \/ (a = 0 /\ b = 0) THEN 0
    ELSE ((a + b) % 2) + 2 * XorBits(a \div 2, b \div 2, n - 1)

\* bitwise XOR of two n-bit values (the C operator ^); each operand is
\* evaluated once
XorW(a, b, n) == CHOOSE r \in {XorBits(x, y, n) : x \in {a}, y \in {b}} : TRUE

RECURSIVE AndBits(_, _, _)
AndBits(a, b, n) ==
    IF n = 0 \/ a = 0 \/ b = 0 THEN 0
    ELSE ((a % 2) * (b % 2)) + 2 * AndBits(a \div 2, b \div 2, n - 1)

\* bitwise AND of two n-bit values (the C operator &); each operand is
\* evaluated once
AndW(a, b, n) == CHOOSE r \in {AndBits(x, y, n) : x \in {a}, y \in {b}} : TRUE

RECURSIVE Weight(_)
\* Hamming weight
Weight(x) == IF x = 0 THEN 0 ELSE (x % 2) + Weight(x \div 2)

U8(x) == x % 256
U16(x) == x % 65536

(* --------------------------- bus_encoder.c ----------------------------- *)
RECURSIVE SyndromeLoopZeroBased(_, _, _)
\* the column counted from 0 instead of 1
SyndromeLoopZeroBased(temp_state, col_idx, syndrome) ==
    IF col_idx > HAMMING_N THEN syndrome
    ELSE SyndromeLoopZeroBased(temp_state \div 2, col_idx + 1,
                      IF AndW(temp_state, 1, 16) # 0
                      THEN XorW(syndrome, col_idx - 1, 8) ELSE syndrome)

RECURSIVE SyndromeLoop(_, _, _)
\* the for loop of compute_syndrome_from_bus: col_idx = 1..HAMMING_N
SyndromeLoop(temp_state, col_idx, syndrome) ==
    IF col_idx > HAMMING_N THEN syndrome
    ELSE SyndromeLoop(temp_state \div 2, col_idx + 1,
                      IF AndW(temp_state, 1, 16) # 0
                      THEN XorW(syndrome, col_idx, 8) ELSE syndrome)

compute_syndrome_from_bus(bus_state) ==
    SyndromeLoop(AndW(bus_state, BUS_STATE_MASK, 16), 1, 0)

find_minimal_w_two_bits(s_target) ==
    LET t == AndW(s_target, 15, 8)
    IN  IF t = 0 THEN 0
        ELSE IF t = 3 THEN 3 ELSE U16(2 ^ (t - 1))

find_minimal_w_shifted(s_target) ==
    LET t == AndW(s_target, 15, 8)
    IN  IF t = 0 THEN 0 ELSE U16(2 ^ t)

\* line 123 left out: a 16-bit shift by 16 or more gives 0
find_minimal_w_unmasked(s_target) ==
    IF s_target = 0 THEN 0
    ELSE IF s_target > 16 THEN 0 ELSE U16(2 ^ (s_target - 1))

find_minimal_w(s_target) ==
    LET t == AndW(s_target, 15, 8)
    IN  IF t = 0 THEN 0 ELSE U16(2 ^ (t - 1))

\* the state rebuilt from s_new alone instead of toggled
CorrectionForRewrite(bus, s_new) ==
    XorW(bus, find_minimal_w(AndW(s_new, 15, 8)), 16)

\* process_nibble lines 165-174: the correction vector for s_new on state bus
CorrectionFor(bus, s_new) ==
    LET s_masked == AndW(s_new, 15, 8)
        s_old    == compute_syndrome_from_bus(bus)
        s_target == XorW(s_masked, s_old, 8)
    IN  find_minimal_w(s_target)

DifferentialUpdateOverwrite(bus, wv) == wv

\* process_nibble line 177: current_bus_state ^= w
DifferentialUpdate(bus, wv) == XorW(bus, wv, 16)

\* process_nibble line 180: current_bus_state &= BUS_STATE_MASK
MaskBus(bus) == AndW(bus, BUS_STATE_MASK, 16)

(* --------------------------- shift_output.c ---------------------------- *)
\* output_to_shift_registers line 89
Snapshot(bus) == AndW(bus, BUS_STATE_MASK, 16)

DataBitLsbFirst(copy, pos) == Bit(copy, (HAMMING_N - 1) - pos)

\* output_to_shift_registers line 98
DataBit(copy, pos) == AndW(copy \div (2 ^ pos), 1, 16)

(* ------------------------ shift-register chain ------------------------- *)
\* two chained 8-bit registers: a rising clock edge shifts the data line in
\* at stage 0 and moves every stage up by one
ShiftIn(chain, d) == U16(2 * chain + d)


(* ------------------------------- state --------------------------------- *)
VARIABLES
    fw,                 \* firmware image on the transmitter: "h1" or "block"
    \* transmitter globals (main.c 44-54)
    current_bus_state, buffer_flag, tx_flag, buffer_count, tx_temp_byte,
    \* transmitter special function registers
    EA, ES, REN, RI, TI, SBUF,
    \* transmitter program position and locals
    pc, ret, nib, rx_char, s_new, w, saved_ea, state_copy, bit_pos,
    isr_pc,
    \* shift-register interface pins, the chain and its latched outputs
    DATA_PIN, CLK_PIN, LATCH_PIN, sr, q,
    \* bookkeeping of the run (not program state)
    bus_at_entry, n_latch, n_clk, n_bytes, n_calls, last_symbol,
    n_commits,          \* latch edges since power-on
    commits_at_entry,   \* n_commits when tx_handler was last entered
    \* recorded in the runs that observe the hand-over (call = "handover"):
    isr_bytes,          \* the bytes UART_ISR copied from SBUF, in order
    handled_bytes,      \* the arguments of the tx_handler calls, in order
    \* receiver
    rx_pc, sample_flag, rx_EA, p2_val, p3_val, X, decimal_value,
    n_samples, q_at_p2, q_at_p3, tx_steps_in_gap,
    \* receiver UART and transmit_hex_uart
    rx_ES, rx_TI,       \* the receiver's ES and TI bits
    rx_isr_pc,          \* position of the receiver's UART_ISR
    uart_busy,          \* a byte written to SBUF is being shifted out
    rx_sent,            \* the bytes written to SBUF, in order
    hex_value,          \* transmit_hex_uart's parameter value
    hex_stage,          \* which of its three bytes the call is at
    \* block firmware: the buffering tx_handler
    S_input_buffer, num_active_blocks,
    \* block firmware: transmit_X_to_shift_reg
    x_pc, X_stream_output, total_bits, x_i, n_xcalls,
    \* a single function applied to chosen arguments: its name, its
    \* arguments and what it returned
    call, arg, result

memVars  == <<current_bus_state, buffer_flag, tx_flag, buffer_count, tx_temp_byte>>
sfrVars  == <<EA, ES, REN, RI, TI, SBUF>>
cpuVars  == <<pc, ret, nib, rx_char, s_new, w, saved_ea, state_copy, bit_pos>>
pinVars  == <<DATA_PIN, CLK_PIN, LATCH_PIN, sr, q>>
runVars  == <<bus_at_entry, n_latch, n_clk, n_bytes, n_calls, last_symbol,
              n_commits, commits_at_entry>>
rxVars   == <<rx_pc, sample_flag, rx_EA, p2_val, p3_val, X, decimal_value,
              n_samples, q_at_p2, q_at_p3>>
xVars    == <<x_pc, X_stream_output, total_bits, x_i, n_xcalls>>
fnVars   == <<call, arg, result>>
hoVars   == <<isr_bytes, handled_bytes>>
bufVars  == <<S_input_buffer, num_active_blocks>>
hexVars  == <<rx_ES, rx_TI, rx_isr_pc, uart_busy, rx_sent, hex_value,
              hex_stage>>
vars     == <<fw, memVars, sfrVars, cpuVars, isr_pc, pinVars, runVars,
              rxVars, tx_steps_in_gap, xVars, fnVars, hoVars, hexVars, bufVars>>

\* main.c line 44: volatile uint16_t current_bus_state = 0
InitBusState == 0

InitState ==
    /\ current_bus_state = InitBusState
    /\ buffer_flag = FALSE /\ tx_flag = FALSE
    /\ buffer_count = 0 /\ tx_temp_byte = 0
    /\ EA = FALSE /\ ES = FALSE /\ REN = FALSE
    /\ RI = FALSE /\ TI = FALSE /\ SBUF = 0
    /\ ret = "none" /\ nib = "none" /\ rx_char = 0 /\ s_new = 0 /\ w = 0
    /\ saved_ea = FALSE /\ state_copy = 0 /\ bit_pos = 0
    /\ isr_pc = "idle"
    /\ DATA_PIN = 0 /\ CLK_PIN = 0 /\ LATCH_PIN = 0 /\ sr = 0 /\ q = 0
    /\ bus_at_entry = 0 /\ n_latch = 0 /\ n_clk = 0 /\ n_bytes = 0
    /\ n_calls = 0 /\ last_symbol = 0
    /\ rx_pc = "r_wait" /\ sample_flag = FALSE /\ rx_EA = TRUE
    /\ p2_val = 0 /\ p3_val = 0 /\ decimal_value = 0
    /\ X = [i \in 0 .. (HAMMING_N - 1) |-> 0]
    /\ n_samples = 0 /\ q_at_p2 = 0 /\ q_at_p3 = 0
    /\ tx_steps_in_gap = 0
    /\ x_pc = "x_idle" /\ X_stream_output = <<>> /\ total_bits = 0
    /\ x_i = 0 /\ n_xcalls = 0
    /\ n_commits = 0 /\ commits_at_entry = 0
    /\ isr_bytes = <<>> /\ handled_bytes = <<>>
    /\ rx_ES = TRUE /\ rx_TI = FALSE /\ rx_isr_pc = "idle"
    /\ uart_busy = FALSE /\ rx_sent = <<>>
    /\ hex_value = 0 /\ hex_stage = 1
    /\ S_input_buffer = [i \in 0 .. (MAX_BLOCKS - 1) |-> 0]
    /\ num_active_blocks = MAX_BLOCKS
    /\ arg = <<>> /\ result = <<>>

InitCommon == InitState /\ call = "none"

Init ==
    /\ fw \in {"h1", "block"}
    /\ pc = "m_GlobalINT"
    /\ InitCommon

(* ---------------------- interrupt dispatch (8052) ---------------------- *)
\* the serial interrupt is requested while RI or TI is set and is taken when
\* EA and ES are both set
IntPending == EA /\ ES /\ (RI \/ TI)

\* the two port reads of read_X_from_bus are adjacent instructions executed
\* with the receiver's interrupts disabled: only a few transmitter steps fit
\* between them
GapOpen == rx_pc = "r_read_p3" => tx_steps_in_gap < MaxTxStepsBetweenReads
GapTick == tx_steps_in_gap' = IF rx_pc = "r_read_p3" THEN tx_steps_in_gap + 1
                              ELSE tx_steps_in_gap

\* a step of the transmitter's main program
MainRuns == fw = "h1" /\ isr_pc = "idle" /\ ~IntPending /\ GapOpen
IsrRuns  == fw = "h1" /\ isr_pc # "idle" /\ GapOpen

\* what a main-program step leaves alone besides what it names
MainFrame == /\ GapTick
             /\ UNCHANGED <<fw, isr_pc, rxVars, xVars, fnVars, n_bytes,
                          isr_bytes, hexVars, bufVars>>

(* ------------------------ shift-register hardware ---------------------- *)
\* writing v to CLK_PIN: a rising edge shifts DATA_PIN into the chain
ClockWrite(v) ==
    /\ CLK_PIN' = v
    /\ sr' = IF CLK_PIN = 0 /\ v = 1 THEN ShiftIn(sr, DATA_PIN) ELSE sr
    /\ n_clk' = IF CLK_PIN = 0 /\ v = 1 THEN n_clk + 1 ELSE n_clk

\* a write of v to LATCH_PIN is a rising edge of the storage clock
LatchEdge(v) == LATCH_PIN = 0 /\ v = 1

\* writing v to LATCH_PIN: a rising edge copies the chain to the outputs
LatchWrite(v) ==
    /\ LATCH_PIN' = v
    /\ q' = IF LatchEdge(v) THEN sr ELSE q
    /\ n_latch' = IF LatchEdge(v) THEN n_latch + 1 ELSE n_latch
    /\ n_commits' = IF LatchEdge(v) THEN n_commits + 1 ELSE n_commits

(* ------------------------ main.c: initialization ----------------------- *)
\* GlobalINT (peripherals.c 51-54); Timer3_Init only sets the baud rate
M_GlobalINT ==
    /\ MainRuns /\ pc = "m_GlobalINT"
    /\ EA' = TRUE
    /\ pc' = "m_UART_Init"
    /\ UNCHANGED <<ES, REN, RI, TI, SBUF, memVars, pinVars>>
    /\ UNCHANGED <<ret, nib, rx_char, s_new, w, saved_ea, state_copy, bit_pos>>
    /\ UNCHANGED <<bus_at_entry, n_latch, n_commits, n_clk, n_calls,
                   commits_at_entry, last_symbol>>
    /\ UNCHANGED handled_bytes
    /\ MainFrame

\* UART_Init (peripherals.c 35-43)
M_UART_Init ==
    /\ MainRuns /\ pc = "m_UART_Init"
    /\ REN' = TRUE /\ RI' = FALSE /\ TI' = FALSE /\ ES' = TRUE
    /\ pc' = "m_Port_Init"
    /\ UNCHANGED <<EA, SBUF, memVars, pinVars>>
    /\ UNCHANGED <<ret, nib, rx_char, s_new, w, saved_ea, state_copy, bit_pos>>
    /\ UNCHANGED <<bus_at_entry, n_latch, n_commits, n_clk, n_calls,
                   commits_at_entry, last_symbol>>
    /\ UNCHANGED handled_bytes
    /\ MainFrame

\* Port_Init without the initial call of output_to_shift_registers
M_Port_InitNoCommit ==
    /\ MainRuns /\ pc = "m_Port_Init"
    /\ DATA_PIN' = 0
    /\ ClockWrite(0)
    /\ LatchWrite(0)
    /\ pc' = "m_test_tx" /\ ret' = ret
    /\ UNCHANGED <<sfrVars, memVars>>
    /\ UNCHANGED <<nib, rx_char, s_new, w, saved_ea, state_copy, bit_pos>>
    /\ UNCHANGED <<bus_at_entry, n_calls, commits_at_entry, last_symbol>>
    /\ UNCHANGED handled_bytes
    /\ MainFrame

\* Port_Init (shift_output.c 130-136), then main.c line 70 calls
\* output_to_shift_registers
M_Port_Init ==
    /\ MainRuns /\ pc = "m_Port_Init"
    /\ DATA_PIN' = 0
    /\ ClockWrite(0)
    /\ LatchWrite(0)
    /\ pc' = "o_save" /\ ret' = "main"
    /\ UNCHANGED <<sfrVars, memVars>>
    /\ UNCHANGED <<nib, rx_char, s_new, w, saved_ea, state_copy, bit_pos>>
    /\ UNCHANGED <<bus_at_entry, n_calls, commits_at_entry, last_symbol>>
    /\ UNCHANGED handled_bytes
    /\ MainFrame

(* --------------------------- main.c: main loop ------------------------- *)
\* line 82: if (tx_flag == 1)
M_TestTx ==
    /\ MainRuns /\ pc = "m_test_tx"
    /\ pc' = IF tx_flag THEN "m_clear_tx" ELSE "m_test_buf"
    /\ UNCHANGED <<sfrVars, memVars, pinVars>>
    /\ UNCHANGED <<ret, nib, rx_char, s_new, w, saved_ea, state_copy, bit_pos>>
    /\ UNCHANGED <<bus_at_entry, n_latch, n_commits, n_clk, n_calls,
                   commits_at_entry, last_symbol>>
    /\ UNCHANGED handled_bytes
    /\ MainFrame

\* line 84: tx_flag = 0
M_ClearTx ==
    /\ MainRuns /\ pc = "m_clear_tx"
    /\ tx_flag' = FALSE
    /\ pc' = "m_call_tx"
    /\ UNCHANGED <<current_bus_state, buffer_flag, buffer_count, tx_temp_byte>>
    /\ UNCHANGED <<sfrVars, pinVars>>
    /\ UNCHANGED <<ret, nib, rx_char, s_new, w, saved_ea, state_copy, bit_pos>>
    /\ UNCHANGED <<bus_at_entry, n_latch, n_commits, n_clk, n_calls,
                   commits_at_entry, last_symbol>>
    /\ UNCHANGED handled_bytes
    /\ MainFrame

\* line 91: tx_handler(tx_temp_byte): the argument is read here
M_CallTx ==
    /\ MainRuns /\ pc = "m_call_tx"
    /\ rx_char' = tx_temp_byte
    /\ pc' = "h_check"
    /\ commits_at_entry' = n_commits
    /\ handled_bytes' = IF call = "handover"
                        THEN Append(handled_bytes, tx_temp_byte)
                        ELSE handled_bytes
    /\ UNCHANGED <<sfrVars, memVars, pinVars>>
    /\ UNCHANGED <<ret, nib, s_new, w, saved_ea, state_copy, bit_pos>>
    /\ UNCHANGED <<bus_at_entry, n_latch, n_commits, n_clk, n_calls, last_symbol>>
    /\ MainFrame

\* line 95: if (buffer_flag)
M_TestBuf ==
    /\ MainRuns /\ pc = "m_test_buf"
    /\ pc' = IF buffer_flag THEN "m_es0" ELSE "m_test_tx"
    /\ UNCHANGED <<sfrVars, memVars, pinVars>>
    /\ UNCHANGED <<ret, nib, rx_char, s_new, w, saved_ea, state_copy, bit_pos>>
    /\ UNCHANGED <<bus_at_entry, n_latch, n_commits, n_clk, n_calls,
                   commits_at_entry, last_symbol>>
    /\ UNCHANGED handled_bytes
    /\ MainFrame

\* line 98: ES = 0
M_Es0 ==
    /\ MainRuns /\ pc = "m_es0"
    /\ ES' = FALSE
    /\ pc' = "m_bf0"
    /\ UNCHANGED <<EA, REN, RI, TI, SBUF, memVars, pinVars>>
    /\ UNCHANGED <<ret, nib, rx_char, s_new, w, saved_ea, state_copy, bit_pos>>
    /\ UNCHANGED <<bus_at_entry, n_latch, n_commits, n_clk, n_calls,
                   commits_at_entry, last_symbol>>
    /\ UNCHANGED handled_bytes
    /\ MainFrame

\* line 100: buffer_flag = 0
M_Bf0 ==
    /\ MainRuns /\ pc = "m_bf0"
    /\ buffer_flag' = FALSE
    /\ pc' = "m_bc0"
    /\ UNCHANGED <<current_bus_state, tx_flag, buffer_count, tx_temp_byte>>
    /\ UNCHANGED <<sfrVars, pinVars>>
    /\ UNCHANGED <<ret, nib, rx_char, s_new, w, saved_ea, state_copy, bit_pos>>
    /\ UNCHANGED <<bus_at_entry, n_latch, n_commits, n_clk, n_calls,
                   commits_at_entry, last_symbol>>
    /\ UNCHANGED handled_bytes
    /\ MainFrame

\* line 112: buffer_count = 0
M_Bc0 ==
    /\ MainRuns /\ pc = "m_bc0"
    /\ buffer_count' = 0
    /\ pc' = "m_es1"
    /\ UNCHANGED <<current_bus_state, buffer_flag, tx_flag, tx_temp_byte>>
    /\ UNCHANGED <<sfrVars, pinVars>>
    /\ UNCHANGED <<ret, nib, rx_char, s_new, w, saved_ea, state_copy, bit_pos>>
    /\ UNCHANGED <<bus_at_entry, n_latch, n_commits, n_clk, n_calls,
                   commits_at_entry, last_symbol>>
    /\ UNCHANGED handled_bytes
    /\ MainFrame

\* line 115: ES = 1
M_Es1 ==
    /\ MainRuns /\ pc = "m_es1"
    /\ ES' = TRUE
    /\ pc' = "m_test_tx"
    /\ UNCHANGED <<EA, REN, RI, TI, SBUF, memVars, pinVars>>
    /\ UNCHANGED <<ret, nib, rx_char, s_new, w, saved_ea, state_copy, bit_pos>>
    /\ UNCHANGED <<bus_at_entry, n_latch, n_commits, n_clk, n_calls,
                   commits_at_entry, last_symbol>>
    /\ UNCHANGED handled_bytes
    /\ MainFrame

(* ------------------- tx_handler (nibble-splitting) --------------------- *)
\* a terminator that also restarts the bus from the zero vector
H_TerminatorClearsBus ==
    /\ MainRuns /\ pc = "h_check"
    /\ rx_char = CR \/ rx_char = LF
    /\ buffer_flag' = TRUE
    /\ pc' = "m_test_buf"
    /\ current_bus_state' = 0
    /\ UNCHANGED <<tx_flag, buffer_count, tx_temp_byte>>
    /\ UNCHANGED <<sfrVars, pinVars>>
    /\ UNCHANGED <<ret, nib, rx_char, s_new, w, saved_ea, state_copy, bit_pos>>
    /\ UNCHANGED <<bus_at_entry, n_latch, n_commits, n_clk, n_calls,
                   commits_at_entry, last_symbol>>
    /\ UNCHANGED handled_bytes
    /\ MainFrame

\* lines 46-51: a terminator sets buffer_flag and returns
H_Terminator ==
    /\ MainRuns /\ pc = "h_check"
    /\ rx_char = CR \/ rx_char = LF
    /\ buffer_flag' = TRUE
    /\ pc' = "m_test_buf"
    /\ UNCHANGED <<current_bus_state, tx_flag, buffer_count, tx_temp_byte>>
    /\ UNCHANGED <<sfrVars, pinVars>>
    /\ UNCHANGED <<ret, nib, rx_char, s_new, w, saved_ea, state_copy, bit_pos>>
    /\ UNCHANGED <<bus_at_entry, n_latch, n_commits, n_clk, n_calls,
                   commits_at_entry, last_symbol>>
    /\ UNCHANGED handled_bytes
    /\ MainFrame

\* the low nibble passed to the first process_nibble call
H_DataLowFirst ==
    /\ MainRuns /\ pc = "h_check"
    /\ ~(rx_char = CR \/ rx_char = LF)
    /\ s_new' = AndW(rx_char, 15, 8)
    /\ nib' = "hi"
    /\ pc' = "pn_read"
    /\ UNCHANGED <<sfrVars, memVars, pinVars>>
    /\ UNCHANGED <<ret, rx_char, w, saved_ea, state_copy, bit_pos>>
    /\ UNCHANGED <<bus_at_entry, n_latch, n_commits, n_clk, n_calls,
                   commits_at_entry, last_symbol>>
    /\ UNCHANGED handled_bytes
    /\ MainFrame

\* lines 56-62: split the character and call process_nibble(high_nibble)
H_Data ==
    /\ MainRuns /\ pc = "h_check"
    /\ ~(rx_char = CR \/ rx_char = LF)
    /\ s_new' = AndW(rx_char \div 16, 15, 8)
    /\ nib' = "hi"
    /\ pc' = "pn_read"
    /\ UNCHANGED <<sfrVars, memVars, pinVars>>
    /\ UNCHANGED <<ret, rx_char, w, saved_ea, state_copy, bit_pos>>
    /\ UNCHANGED <<bus_at_entry, n_latch, n_commits, n_clk, n_calls,
                   commits_at_entry, last_symbol>>
    /\ UNCHANGED handled_bytes
    /\ MainFrame

\* return of process_nibble into tx_handler: line 65 calls
\* process_nibble(low_nibble) after the high nibble, line 68 follows the low
PN_Ret ==
    /\ MainRuns /\ pc = "pn_ret"
    /\ IF nib = "hi"
       THEN /\ nib' = "lo"
            /\ s_new' = AndW(rx_char, 15, 8)
            /\ pc' = "pn_read"
       ELSE /\ nib' = "none"
            /\ s_new' = s_new
            /\ pc' = "h_count"
    /\ last_symbol' = s_new
    /\ UNCHANGED <<sfrVars, memVars, pinVars>>
    /\ UNCHANGED <<ret, rx_char, w, saved_ea, state_copy, bit_pos>>
    /\ UNCHANGED <<bus_at_entry, n_latch, n_commits, n_clk, n_calls, commits_at_entry>>
    /\ UNCHANGED handled_bytes
    /\ MainFrame

\* lines 68-71: if (buffer_count < 255) buffer_count += 2, on a uint8_t
CountAfter(bc) == IF bc < 255 THEN U8(bc + 2) ELSE bc

H_Count ==
    /\ MainRuns /\ pc = "h_count"
    /\ buffer_count' = CountAfter(buffer_count)
    /\ pc' = "m_test_buf"
    /\ UNCHANGED <<current_bus_state, buffer_flag, tx_flag, tx_temp_byte>>
    /\ UNCHANGED <<sfrVars, pinVars>>
    /\ UNCHANGED <<ret, nib, rx_char, s_new, w, saved_ea, state_copy, bit_pos>>
    /\ UNCHANGED <<bus_at_entry, n_latch, n_commits, n_clk, n_calls,
                   commits_at_entry, last_symbol>>
    /\ UNCHANGED handled_bytes
    /\ MainFrame

(* --------------------------- process_nibble ---------------------------- *)
\* lines 165-174: mask s_new, read current_bus_state once for the syndrome,
\* compute s_target and w (all in locals)
PN_Read ==
    /\ MainRuns /\ pc = "pn_read"
    /\ s_new' = AndW(s_new, 15, 8)
    /\ w' = CorrectionFor(current_bus_state, s_new)
    /\ bus_at_entry' = current_bus_state
    /\ n_latch' = 0
    /\ n_calls' = n_calls + 1
    /\ UNCHANGED <<n_commits, commits_at_entry>>
    /\ pc' = "pn_xor"
    /\ UNCHANGED <<sfrVars, memVars, pinVars>>
    /\ UNCHANGED <<ret, nib, rx_char, saved_ea, state_copy, bit_pos>>
    /\ UNCHANGED <<n_clk, last_symbol>>
    /\ UNCHANGED handled_bytes
    /\ MainFrame

\* line 177: current_bus_state ^= w
PN_Xor ==
    /\ MainRuns /\ pc = "pn_xor"
    /\ current_bus_state' = DifferentialUpdate(current_bus_state, w)
    /\ pc' = "pn_mask"
    /\ UNCHANGED <<buffer_flag, tx_flag, buffer_count, tx_temp_byte>>
    /\ UNCHANGED <<sfrVars, pinVars>>
    /\ UNCHANGED <<ret, nib, rx_char, s_new, w, saved_ea, state_copy, bit_pos>>
    /\ UNCHANGED <<bus_at_entry, n_latch, n_commits, n_clk, n_calls,
                   commits_at_entry, last_symbol>>
    /\ UNCHANGED handled_bytes
    /\ MainFrame

PN_MaskSkipsIdleCommit ==
    /\ MainRuns /\ pc = "pn_mask"
    /\ current_bus_state' = MaskBus(current_bus_state)
    /\ IF w = 0 THEN pc' = "pn_ret" /\ ret' = ret
                ELSE pc' = "o_save" /\ ret' = "pn"
    /\ UNCHANGED <<buffer_flag, tx_flag, buffer_count, tx_temp_byte>>
    /\ UNCHANGED <<sfrVars, pinVars>>
    /\ UNCHANGED <<nib, rx_char, s_new, w, saved_ea, state_copy, bit_pos>>
    /\ UNCHANGED <<bus_at_entry, n_latch, n_commits, n_clk, n_calls,
                   commits_at_entry, last_symbol>>
    /\ UNCHANGED handled_bytes
    /\ MainFrame

\* line 180: current_bus_state &= BUS_STATE_MASK, then line 183 calls
\* output_to_shift_registers
PN_Mask ==
    /\ MainRuns /\ pc = "pn_mask"
    /\ current_bus_state' = MaskBus(current_bus_state)
    /\ pc' = "o_save" /\ ret' = "pn"
    /\ UNCHANGED <<buffer_flag, tx_flag, buffer_count, tx_temp_byte>>
    /\ UNCHANGED <<sfrVars, pinVars>>
    /\ UNCHANGED <<nib, rx_char, s_new, w, saved_ea, state_copy, bit_pos>>
    /\ UNCHANGED <<bus_at_entry, n_latch, n_commits, n_clk, n_calls,
                   commits_at_entry, last_symbol>>
    /\ UNCHANGED handled_bytes
    /\ MainFrame

(* ---------------------- output_to_shift_registers ---------------------- *)
\* line 85: saved_ea = EA
O_Save ==
    /\ MainRuns /\ pc = "o_save"
    /\ saved_ea' = EA
    /\ pc' = "o_cli"
    /\ UNCHANGED <<sfrVars, memVars, pinVars>>
    /\ UNCHANGED <<ret, nib, rx_char, s_new, w, state_copy, bit_pos>>
    /\ UNCHANGED <<bus_at_entry, n_latch, n_commits, n_clk, n_calls,
                   commits_at_entry, last_symbol>>
    /\ UNCHANGED handled_bytes
    /\ MainFrame

EnterCriticalSkipped(ea) == ea

\* line 86: EA = 0
EnterCritical(ea) == FALSE

O_Cli ==
    /\ MainRuns /\ pc = "o_cli"
    /\ EA' = EnterCritical(EA)
    /\ pc' = "o_snap"
    /\ UNCHANGED <<ES, REN, RI, TI, SBUF, memVars, pinVars>>
    /\ UNCHANGED <<ret, nib, rx_char, s_new, w, saved_ea, state_copy, bit_pos>>
    /\ UNCHANGED <<bus_at_entry, n_latch, n_commits, n_clk, n_calls,
                   commits_at_entry, last_symbol>>
    /\ UNCHANGED handled_bytes
    /\ MainFrame

\* line 89: state_copy = current_bus_state & BUS_STATE_MASK
O_Snap ==
    /\ MainRuns /\ pc = "o_snap"
    /\ state_copy' = Snapshot(current_bus_state)
    /\ pc' = "o_latch0"
    /\ UNCHANGED <<sfrVars, memVars, pinVars>>
    /\ UNCHANGED <<ret, nib, rx_char, s_new, w, saved_ea, bit_pos>>
    /\ UNCHANGED <<bus_at_entry, n_latch, n_commits, n_clk, n_calls,
                   commits_at_entry, last_symbol>>
    /\ UNCHANGED handled_bytes
    /\ MainFrame

O_Latch0Skipped ==
    /\ MainRuns /\ pc = "o_latch0"
    /\ bit_pos' = HAMMING_N - 1
    /\ n_clk' = 0
    /\ pc' = "o_data"
    /\ UNCHANGED <<sfrVars, memVars, pinVars>>
    /\ UNCHANGED <<ret, nib, rx_char, s_new, w, saved_ea, state_copy>>
    /\ UNCHANGED <<bus_at_entry, n_latch, n_commits, n_calls, commits_at_entry, last_symbol>>
    /\ UNCHANGED handled_bytes
    /\ MainFrame

\* line 92: LATCH_PIN = 0; line 95: bit_pos = HAMMING_N - 1
O_Latch0 ==
    /\ MainRuns /\ pc = "o_latch0"
    /\ LatchWrite(0)
    /\ bit_pos' = HAMMING_N - 1
    /\ n_clk' = 0
    /\ pc' = "o_data"
    /\ UNCHANGED <<sfrVars, memVars, DATA_PIN, CLK_PIN, sr>>
    /\ UNCHANGED <<ret, nib, rx_char, s_new, w, saved_ea, state_copy>>
    /\ UNCHANGED <<bus_at_entry, n_calls, commits_at_entry, last_symbol>>
    /\ UNCHANGED handled_bytes
    /\ MainFrame

\* line 98: DATA_PIN = (state_copy >> bit_pos) & 1
O_Data ==
    /\ MainRuns /\ pc = "o_data"
    /\ DATA_PIN' = DataBit(state_copy, bit_pos)
    /\ pc' = "o_clk1"
    /\ UNCHANGED <<sfrVars, memVars, CLK_PIN, LATCH_PIN, sr, q>>
    /\ UNCHANGED <<ret, nib, rx_char, s_new, w, saved_ea, state_copy, bit_pos>>
    /\ UNCHANGED <<bus_at_entry, n_latch, n_commits, n_clk, n_calls,
                   commits_at_entry, last_symbol>>
    /\ UNCHANGED handled_bytes
    /\ MainFrame

\* line 101: CLK_PIN = 1
O_Clk1 ==
    /\ MainRuns /\ pc = "o_clk1"
    /\ ClockWrite(1)
    /\ pc' = "o_clk0"
    /\ UNCHANGED <<sfrVars, memVars, DATA_PIN, LATCH_PIN, q>>
    /\ UNCHANGED <<ret, nib, rx_char, s_new, w, saved_ea, state_copy, bit_pos>>
    /\ UNCHANGED <<bus_at_entry, n_latch, n_commits, n_calls, commits_at_entry, last_symbol>>
    /\ UNCHANGED handled_bytes
    /\ MainFrame

\* line 105: CLK_PIN = 0; line 95: bit_pos--, bit_pos >= 0
O_Clk0 ==
    /\ MainRuns /\ pc = "o_clk0"
    /\ ClockWrite(0)
    /\ bit_pos' = bit_pos - 1
    /\ pc' = IF bit_pos - 1 >= 0 THEN "o_data" ELSE "o_latch1"
    /\ UNCHANGED <<sfrVars, memVars, DATA_PIN, LATCH_PIN, q>>
    /\ UNCHANGED <<ret, nib, rx_char, s_new, w, saved_ea, state_copy>>
    /\ UNCHANGED <<bus_at_entry, n_latch, n_commits, n_calls, commits_at_entry, last_symbol>>
    /\ UNCHANGED handled_bytes
    /\ MainFrame

\* line 110: LATCH_PIN = 1
O_Latch1 ==
    /\ MainRuns /\ pc = "o_latch1"
    /\ LatchWrite(1)
    /\ pc' = "o_restore"
    /\ UNCHANGED <<sfrVars, memVars, DATA_PIN, CLK_PIN, sr>>
    /\ UNCHANGED <<ret, nib, rx_char, s_new, w, saved_ea, state_copy, bit_pos>>
    /\ UNCHANGED <<bus_at_entry, n_clk, n_calls, commits_at_entry, last_symbol>>
    /\ UNCHANGED handled_bytes
    /\ MainFrame

\* the return with interrupts enabled whatever was saved
O_RestoreEnables ==
    /\ MainRuns /\ pc = "o_restore"
    /\ EA' = TRUE
    /\ pc' = IF ret = "main" THEN "m_test_tx"
           ELSE IF ret = "out" THEN "out_done" ELSE "pn_ret"
    /\ ret' = "none"
    /\ UNCHANGED <<ES, REN, RI, TI, SBUF, memVars, pinVars>>
    /\ UNCHANGED <<nib, rx_char, s_new, w, saved_ea, state_copy, bit_pos>>
    /\ UNCHANGED <<bus_at_entry, n_latch, n_commits, n_clk, n_calls,
                   commits_at_entry, last_symbol>>
    /\ UNCHANGED handled_bytes
    /\ MainFrame

\* line 120: EA = saved_ea, and the return to the caller
O_Restore ==
    /\ MainRuns /\ pc = "o_restore"
    /\ EA' = saved_ea
    /\ pc' = IF ret = "main" THEN "m_test_tx"
           ELSE IF ret = "out" THEN "out_done" ELSE "pn_ret"
    /\ ret' = "none"
    /\ UNCHANGED <<ES, REN, RI, TI, SBUF, memVars, pinVars>>
    /\ UNCHANGED <<nib, rx_char, s_new, w, saved_ea, state_copy, bit_pos>>
    /\ UNCHANGED <<bus_at_entry, n_latch, n_commits, n_clk, n_calls,
                   commits_at_entry, last_symbol>>
    /\ UNCHANGED handled_bytes
    /\ MainFrame

(* ------------------------ UART and its interrupt ----------------------- *)
\* the UART completes the reception of byte b: it is loaded into SBUF and RI
\* is set unless RI is still set, in which case the byte is lost
UartReceive ==
    /\ fw = "h1" /\ REN /\ n_bytes < MaxBytes /\ GapOpen
    /\ \E b \in Bytes :
         IF RI THEN UNCHANGED <<RI, SBUF>>
         ELSE RI' = TRUE /\ SBUF' = b
    /\ n_bytes' = n_bytes + 1
    /\ GapTick
    /\ UNCHANGED <<fw, EA, ES, REN, TI, memVars, cpuVars, isr_pc, pinVars>>
    /\ UNCHANGED <<bus_at_entry, n_latch, n_commits, n_clk, n_calls,
                   commits_at_entry, last_symbol>>
    /\ UNCHANGED <<rxVars, xVars, fnVars, hoVars,
                   hexVars, bufVars>>

\* the last byte of a run may have any value
UartReceiveAny ==
    /\ fw = "h1" /\ REN /\ n_bytes = MaxBytes - 1 /\ GapOpen
    /\ \E b \in 0 .. 255 :
         IF RI THEN UNCHANGED <<RI, SBUF>>
         ELSE RI' = TRUE /\ SBUF' = b
    /\ n_bytes' = n_bytes + 1
    /\ GapTick
    /\ UNCHANGED <<fw, EA, ES, REN, TI, memVars, cpuVars, isr_pc, pinVars>>
    /\ UNCHANGED <<bus_at_entry, n_latch, n_commits, n_clk, n_calls,
                   commits_at_entry, last_symbol>>
    /\ UNCHANGED <<rxVars, xVars, fnVars, hoVars,
                   hexVars, bufVars>>

IsrFrame == /\ GapTick
            /\ UNCHANGED <<fw, cpuVars, pinVars, runVars, rxVars, xVars,
                           fnVars, handled_bytes, hexVars, bufVars>>

\* the serial interrupt is taken between two instructions of main
ISR_Enter ==
    /\ fw = "h1" /\ isr_pc = "idle" /\ IntPending /\ GapOpen
    /\ isr_pc' = "i_ri"
    /\ UNCHANGED <<memVars, sfrVars>>
    /\ UNCHANGED isr_bytes
    /\ IsrFrame

\* UART_ISR lines 72-74: if (RI) RI = 0
ISR_Ri ==
    /\ IsrRuns /\ isr_pc = "i_ri"
    /\ IF RI THEN RI' = FALSE /\ isr_pc' = "i_copy"
             ELSE RI' = RI /\ isr_pc' = "i_ti"
    /\ UNCHANGED <<memVars, EA, ES, REN, TI, SBUF>>
    /\ UNCHANGED isr_bytes
    /\ IsrFrame

\* line 75: tx_temp_byte = SBUF
ISR_Copy ==
    /\ IsrRuns /\ isr_pc = "i_copy"
    /\ tx_temp_byte' = SBUF
    /\ isr_bytes' = IF call = "handover" THEN Append(isr_bytes, SBUF)
                    ELSE isr_bytes
    /\ isr_pc' = "i_flag"
    /\ UNCHANGED <<current_bus_state, buffer_flag, tx_flag, buffer_count>>
    /\ UNCHANGED sfrVars
    /\ IsrFrame

ISR_FlagResetsBus ==
    /\ IsrRuns /\ isr_pc = "i_flag"
    /\ tx_flag' = TRUE
    /\ current_bus_state' = 0
    /\ isr_pc' = "i_ti"
    /\ UNCHANGED <<buffer_flag, buffer_count, tx_temp_byte>>
    /\ UNCHANGED sfrVars
    /\ UNCHANGED isr_bytes
    /\ IsrFrame

\* line 76: tx_flag = 1
ISR_Flag ==
    /\ IsrRuns /\ isr_pc = "i_flag"
    /\ tx_flag' = TRUE
    /\ isr_pc' = "i_ti"
    /\ UNCHANGED <<current_bus_state, buffer_flag, buffer_count, tx_temp_byte>>
    /\ UNCHANGED sfrVars
    /\ UNCHANGED isr_bytes
    /\ IsrFrame

\* lines 78-81: if (TI) TI = 0, and the return from the interrupt
ISR_Ti ==
    /\ IsrRuns /\ isr_pc = "i_ti"
    /\ TI' = FALSE
    /\ isr_pc' = "idle"
    /\ UNCHANGED <<memVars, EA, ES, REN, RI, SBUF>>
    /\ UNCHANGED isr_bytes
    /\ IsrFrame

TxMain ==
    \/ M_GlobalINT \/ M_UART_Init \/ M_Port_Init
    \/ M_TestTx \/ M_ClearTx \/ M_CallTx
    \/ M_TestBuf \/ M_Es0 \/ M_Bf0 \/ M_Bc0 \/ M_Es1
    \/ H_Terminator \/ H_Data \/ PN_Ret \/ H_Count
    \/ PN_Read \/ PN_Xor \/ PN_Mask
    \/ O_Save \/ O_Cli \/ O_Snap \/ O_Latch0 \/ O_Data \/ O_Clk1 \/ O_Clk0
    \/ O_Latch1 \/ O_Restore

TxIsr == ISR_Enter \/ ISR_Ri \/ ISR_Copy \/ ISR_Flag \/ ISR_Ti

\* the transmitter alone, with the H1 firmware
InitTx ==
    /\ fw = "h1"
    /\ pc = "m_GlobalINT"
    /\ InitCommon

NextTx == TxMain \/ TxIsr \/ UartReceive

\* the transmitter alone, the last byte of the run having any value
NextTxAny == TxMain \/ TxIsr \/ UartReceive \/ UartReceiveAny

SpecTxAny == InitTx /\ [][NextTxAny]_vars

\* the same transmitter, with the bytes UART_ISR stores and the bytes main
\* passes to tx_handler recorded
InitHandover ==
    /\ fw = "h1"
    /\ pc = "m_GlobalINT"
    /\ InitState
    /\ call = "handover"

SpecHandover == InitHandover /\ [][NextTxAny]_vars

(* ------------------------------ the bus -------------------------------- *)
\* bus line j carries latched output j of the chain; the lines reach the
\* receiver in its active-low convention: a set bit pulls its line low
LineLevel(qv, j) == 1 - Bit(qv, j)

\* receiver port P2: lines 0..7 on P2.0-P2.7
PortP2(qv) ==
    LineLevel(qv, 0) + 2 * LineLevel(qv, 1) + 4 * LineLevel(qv, 2)
    + 8 * LineLevel(qv, 3) + 16 * LineLevel(qv, 4) + 32 * LineLevel(qv, 5)
    + 64 * LineLevel(qv, 6) + 128 * LineLevel(qv, 7)

\* receiver port P3: lines 8..10 on P3.5-P3.7, P3.0-P3.4 serve other functions
PortP3(qv, low) ==
    low + 32 * LineLevel(qv, 8) + 64 * LineLevel(qv, 9)
    + 128 * LineLevel(qv, 10)

\* values P3.0-P3.4 may show at a read
P3LowValues == {0, 31}

(* ------------------------- receiver: Rx_input.c ------------------------ *)
\* read_X_from_bus lines 60: memset(X, 0, HAMMING_N)
ClearedX == [i \in 0 .. (HAMMING_N - 1) |-> 0]

\* read_X_from_bus lines 72-94 (active-low): unpack P2 and P3.5-P3.7
UnpackActiveLow(x0, p2, p3) ==
    [i \in 0 .. (HAMMING_N - 1) |->
        IF i < 8 THEN (IF AndW(p2, 2 ^ i, 8) = 0 THEN 1 ELSE 0)
        ELSE IF i = 8 THEN (IF AndW(p3, 2 ^ 5, 8) = 0 THEN 1 ELSE 0)
        ELSE IF i = 9 THEN (IF AndW(p3, 2 ^ 6, 8) = 0 THEN 1 ELSE 0)
        ELSE IF i = 10 THEN (IF AndW(p3, 2 ^ 7, 8) = 0 THEN 1 ELSE 0)
        ELSE x0[i]]

\* read_X_from_bus lines 30-40 (active-high): unpack P2 and P3.5-P3.7
UnpackActiveHigh(x0, p2, p3) ==
    [i \in 0 .. (HAMMING_N - 1) |->
        IF i < 8 THEN AndW(p2 \div (2 ^ i), 1, 8)
        ELSE IF i = 8 THEN AndW(p3 \div (2 ^ 5), 1, 8)
        ELSE IF i = 9 THEN AndW(p3 \div (2 ^ 6), 1, 8)
        ELSE IF i = 10 THEN AndW(p3 \div (2 ^ 7), 1, 8)
        ELSE x0[i]]

\* get_S_from_X: S = H * X^T for the H1-type matrix, S[k] the parity of the
\* X[j] whose column j+1 has bit k set
RECURSIVE ParityOver(_, _, _)
ParityOver(xv, k, j) ==
    IF j = HAMMING_N THEN 0
    ELSE (xv[j] * Bit(j + 1, k) + ParityOver(xv, k, j + 1)) % 2

get_S_from_X(xv, r) == [k \in 0 .. (r - 1) |-> ParityOver(xv, k, 0)]

\* bits_to_decimal: the number whose bit k is S[k]
RECURSIVE BitsSum(_, _, _)
BitsSum(sv, r, k) ==
    IF k = r THEN 0 ELSE sv[k] * (2 ^ k) + BitsSum(sv, r, k + 1)

bits_to_decimal(sv, r) == BitsSum(sv, r, 0)

\* a receiver step: the transmitter and the block firmware stand still
RxFrame == UNCHANGED <<fw, memVars, sfrVars, cpuVars, isr_pc, pinVars,
                       runVars, xVars, fnVars, hoVars,
                   hexVars, bufVars>>

\* the receiver's sampling timer sets sample_flag when its interrupt is
\* enabled
Rx_SampleTick ==
    /\ fw = "h1" /\ rx_EA /\ n_samples < MaxSamples
    /\ sample_flag' = TRUE
    /\ n_samples' = n_samples + 1
    /\ UNCHANGED <<rx_pc, rx_EA, p2_val, p3_val, X, decimal_value,
                   q_at_p2, q_at_p3, tx_steps_in_gap>>
    /\ RxFrame

\* receiver main lines 99-101: if (sample_flag) EA = 0
R_Test ==
    /\ rx_pc = "r_wait" /\ sample_flag
    /\ rx_EA' = FALSE
    /\ rx_pc' = "r_clear"
    /\ UNCHANGED <<sample_flag, p2_val, p3_val, X, decimal_value, n_samples,
                   q_at_p2, q_at_p3, tx_steps_in_gap>>
    /\ RxFrame

\* line 102: sample_flag = 0, then line 104 calls read_X_from_bus
R_Clear ==
    /\ rx_pc = "r_clear"
    /\ sample_flag' = FALSE
    /\ rx_pc' = "r_memset"
    /\ UNCHANGED <<rx_EA, p2_val, p3_val, X, decimal_value, n_samples,
                   q_at_p2, q_at_p3, tx_steps_in_gap>>
    /\ RxFrame

\* read_X_from_bus lines 60-63: memset(X, 0, HAMMING_N); EA = 0
R_Memset ==
    /\ rx_pc = "r_memset"
    /\ X' = ClearedX
    /\ rx_EA' = FALSE
    /\ rx_pc' = "r_read_p2"
    /\ UNCHANGED <<sample_flag, p2_val, p3_val, decimal_value, n_samples,
                   q_at_p2, q_at_p3, tx_steps_in_gap>>
    /\ RxFrame

\* line 64: p2_val = P2
R_ReadP2 ==
    /\ rx_pc = "r_read_p2"
    /\ p2_val' = PortP2(q)
    /\ q_at_p2' = q
    /\ tx_steps_in_gap' = 0
    /\ rx_pc' = "r_read_p3"
    /\ UNCHANGED <<sample_flag, rx_EA, p3_val, X, decimal_value, n_samples,
                   q_at_p3>>
    /\ RxFrame

\* line 65: p3_val = P3
R_ReadP3 ==
    /\ rx_pc = "r_read_p3"
    /\ \E low \in P3LowValues : p3_val' = PortP3(q, low)
    /\ q_at_p3' = q
    /\ tx_steps_in_gap' = 0
    /\ rx_pc' = "r_sti"
    /\ UNCHANGED <<sample_flag, rx_EA, p2_val, X, decimal_value, n_samples,
                   q_at_p2>>
    /\ RxFrame

\* line 66: EA = 1
R_Sti ==
    /\ rx_pc = "r_sti"
    /\ rx_EA' = TRUE
    /\ rx_pc' = "r_unpack"
    /\ UNCHANGED <<sample_flag, p2_val, p3_val, X, decimal_value, n_samples,
                   q_at_p2, q_at_p3, tx_steps_in_gap>>
    /\ RxFrame

\* lines 72-94: unpack into X
R_Unpack ==
    /\ rx_pc = "r_unpack"
    /\ X' = UnpackActiveLow(X, p2_val, p3_val)
    /\ rx_pc' = "r_decode"
    /\ UNCHANGED <<sample_flag, rx_EA, p2_val, p3_val, decimal_value,
                   n_samples, q_at_p2, q_at_p3, tx_steps_in_gap>>
    /\ RxFrame

\* receiver main lines 105-106: get_S_from_X and bits_to_decimal
R_Decode ==
    /\ rx_pc = "r_decode"
    /\ decimal_value' = bits_to_decimal(get_S_from_X(X, HAMMING_R), HAMMING_R)
    /\ rx_pc' = "r_filter"
    /\ UNCHANGED <<sample_flag, rx_EA, p2_val, p3_val, X, n_samples,
                   q_at_p2, q_at_p3, tx_steps_in_gap>>
    /\ RxFrame

\* lines 109-113 with the call made whatever the value
R_FilterCallsAlways ==
    /\ rx_pc = "r_filter"
    /\ rx_pc' = "t_wait_ti"
    /\ UNCHANGED <<sample_flag, rx_EA, p2_val, p3_val, X, decimal_value,
                   n_samples, q_at_p2, q_at_p3, tx_steps_in_gap>>
    /\ RxFrame

\* lines 109-113: transmit_hex_uart is called only for a nonzero value; its
\* first statement waits for TI
R_Filter ==
    /\ rx_pc = "r_filter"
    /\ rx_pc' = IF decimal_value # 0 THEN "t_wait_ti" ELSE "r_sti_main"
    /\ UNCHANGED <<sample_flag, rx_EA, p2_val, p3_val, X, decimal_value,
                   n_samples, q_at_p2, q_at_p3, tx_steps_in_gap>>
    /\ RxFrame

\* line 115: EA = 1
R_StiMain ==
    /\ rx_pc = "r_sti_main"
    /\ rx_EA' = TRUE
    /\ rx_pc' = "r_wait"
    /\ UNCHANGED <<sample_flag, p2_val, p3_val, X, decimal_value, n_samples,
                   q_at_p2, q_at_p3, tx_steps_in_gap>>
    /\ RxFrame

RxNext ==
    \/ Rx_SampleTick \/ R_Test \/ R_Clear \/ R_Memset \/ R_ReadP2 \/ R_ReadP3
    \/ R_Sti \/ R_Unpack \/ R_Decode \/ R_Filter \/ R_StiMain

(* -------------- block firmware: transmit_X_to_shift_reg ---------------- *)
\* the block firmware drives the chain through SR_DATA, SR_CLOCK and
\* SR_LATCH (header.h lines 28-30), modelled on the same three pin variables
XFrame == UNCHANGED <<fw, memVars, sfrVars, cpuVars, isr_pc, bus_at_entry,
                      n_bytes, n_calls, commits_at_entry, last_symbol, rxVars,
                      tx_steps_in_gap, fnVars, hoVars,
                   hexVars, bufVars>>

\* element values a caller may store in X_stream_output
XValues == {0, 1, 2}

\* a call transmit_X_to_shift_reg(X_stream_output, total_bits); line 63:
\* SR_LATCH = 0
X_Call ==
    /\ fw = "block" /\ x_pc = "x_idle" /\ n_xcalls < MaxXCalls
    /\ \E n \in 0 .. MaxXBits :
         /\ total_bits' = n
         /\ \E xs \in [1 .. n -> XValues] : X_stream_output' = xs
    /\ n_xcalls' = n_xcalls + 1
    /\ LATCH_PIN' = 0 /\ q' = q /\ n_latch' = 0 /\ n_commits' = n_commits
    /\ n_clk' = 0
    /\ x_pc' = "x_clock0"
    /\ UNCHANGED <<DATA_PIN, CLK_PIN, sr, x_i>>
    /\ XFrame

\* line 64: SR_CLOCK = 0; line 67: i = total_bits - 1
X_Clock0 ==
    /\ x_pc = "x_clock0"
    /\ ClockWrite(0)
    /\ x_i' = total_bits - 1
    /\ x_pc' = IF total_bits - 1 >= 0 THEN "x_loop_clk0" ELSE "x_end_clk0"
    /\ UNCHANGED <<DATA_PIN, LATCH_PIN, q, n_latch, n_commits>>
    /\ UNCHANGED <<X_stream_output, total_bits, n_xcalls>>
    /\ XFrame

\* line 69: SR_CLOCK = 0
X_LoopClk0 ==
    /\ x_pc = "x_loop_clk0"
    /\ ClockWrite(0)
    /\ x_pc' = "x_loop_data"
    /\ UNCHANGED <<DATA_PIN, LATCH_PIN, q, n_latch, n_commits>>
    /\ UNCHANGED <<X_stream_output, total_bits, x_i, n_xcalls>>
    /\ XFrame

XDataInverted(xs, i) == IF xs[i + 1] # 0 THEN 0 ELSE 1

\* lines 72-79: SR_DATA = (X_stream_output[i] != 0)
XData(xs, i) == IF xs[i + 1] # 0 THEN 1 ELSE 0

X_LoopData ==
    /\ x_pc = "x_loop_data"
    /\ DATA_PIN' = XData(X_stream_output, x_i)
    /\ x_pc' = "x_loop_clk1"
    /\ UNCHANGED <<CLK_PIN, LATCH_PIN, sr, q, n_latch, n_commits, n_clk>>
    /\ UNCHANGED <<X_stream_output, total_bits, x_i, n_xcalls>>
    /\ XFrame

\* line 87: SR_CLOCK = 1; line 67: i--, i >= 0
X_LoopClk1 ==
    /\ x_pc = "x_loop_clk1"
    /\ ClockWrite(1)
    /\ x_i' = x_i - 1
    /\ x_pc' = IF x_i - 1 >= 0 THEN "x_loop_clk0" ELSE "x_end_clk0"
    /\ UNCHANGED <<DATA_PIN, LATCH_PIN, q, n_latch, n_commits>>
    /\ UNCHANGED <<X_stream_output, total_bits, n_xcalls>>
    /\ XFrame

\* line 97: SR_CLOCK = 0
X_EndClk0 ==
    /\ x_pc = "x_end_clk0"
    /\ ClockWrite(0)
    /\ x_pc' = "x_latch1"
    /\ UNCHANGED <<DATA_PIN, LATCH_PIN, q, n_latch, n_commits>>
    /\ UNCHANGED <<X_stream_output, total_bits, x_i, n_xcalls>>
    /\ XFrame

\* line 100: SR_LATCH = 1
X_Latch1 ==
    /\ x_pc = "x_latch1"
    /\ LatchWrite(1)
    /\ x_pc' = "x_latch0"
    /\ UNCHANGED <<DATA_PIN, CLK_PIN, sr, n_clk>>
    /\ UNCHANGED <<X_stream_output, total_bits, x_i, n_xcalls>>
    /\ XFrame

\* line 102: SR_LATCH = 0, and the return
X_Latch0 ==
    /\ x_pc = "x_latch0"
    /\ LatchWrite(0)
    /\ x_pc' = "x_idle"
    /\ UNCHANGED <<DATA_PIN, CLK_PIN, sr, n_clk>>
    /\ UNCHANGED <<X_stream_output, total_bits, x_i, n_xcalls>>
    /\ XFrame

XNext ==
    \/ X_Call \/ X_Clock0 \/ X_LoopClk0 \/ X_LoopData \/ X_LoopClk1
    \/ X_EndClk0 \/ X_Latch1 \/ X_Latch0

(* --------------------------- specification ----------------------------- *)
Next == TxMain \/ TxIsr \/ UartReceive \/ RxNext \/ XNext

Spec == Init /\ [][Next]_vars

(* ----------------------- call-level specification ---------------------- *)
\* values passed to process_nibble at call level: every 4-bit symbol and a
\* few values above 4 bits
EncInputs == (0 .. 15) \cup {16, 27, 240, 255}

RECURSIVE ShiftOut(_, _, _)
\* the loop of output_to_shift_registers lines 95-107 on the chain
ShiftOut(chain, copy, pos) ==
    IF pos < 0 THEN chain
    ELSE ShiftOut(ShiftIn(chain, DataBit(copy, pos)), copy, pos - 1)

InitEnc ==
    /\ fw = "h1"
    /\ pc = "enc"
    /\ InitCommon

\* one whole call process_nibble(s): lines 165-183 with the commit of
\* output_to_shift_registers, run without interruption; a run is a sequence
\* of calls followed by one sample, the receiver having no effect on the
\* transmitter
Enc_process_nibble ==
    /\ pc = "enc" /\ n_calls < MaxCalls /\ rx_pc = "r_wait"
    /\ \E s \in EncInputs :
         /\ last_symbol' = s
         /\ s_new' = AndW(s, 15, 8)
         /\ w' = CorrectionFor(current_bus_state, s)
    /\ current_bus_state' = MaskBus(DifferentialUpdate(current_bus_state, w'))
    /\ state_copy' = Snapshot(current_bus_state')
    /\ sr' = ShiftOut(sr, state_copy', HAMMING_N - 1)
    /\ q' = sr'
    /\ DATA_PIN' = DataBit(state_copy', 0)
    /\ bus_at_entry' = current_bus_state
    /\ LATCH_PIN' = 1
    /\ n_latch' = 1
    /\ n_commits' = n_commits + 1
    /\ UNCHANGED commits_at_entry
    /\ n_clk' = HAMMING_N
    /\ n_calls' = n_calls + 1
    /\ UNCHANGED <<fw, buffer_flag, tx_flag, buffer_count, tx_temp_byte, rx_pc>>
    /\ UNCHANGED <<sfrVars, isr_pc, CLK_PIN, n_bytes, xVars, fnVars,
                   hoVars,
                   hexVars, bufVars>>
    /\ UNCHANGED <<pc, ret, nib, rx_char, saved_ea, bit_pos>>
    /\ UNCHANGED <<sample_flag, rx_EA, p2_val, p3_val, X, decimal_value,
                   n_samples, q_at_p2, q_at_p3, tx_steps_in_gap>>

\* one whole sample and decode of the receiver on a quiet bus:
\* read_X_from_bus, get_S_from_X, bits_to_decimal; the lines are normalized
\* to the polarity of the variant that reads them
Enc_receive ==
    /\ pc = "enc" /\ rx_pc = "r_wait"
    /\ \E activeLow \in BOOLEAN, low \in P3LowValues :
         /\ p2_val' = IF activeLow THEN PortP2(q) ELSE 255 - PortP2(q)
         /\ p3_val' = IF activeLow THEN PortP3(q, low)
                      ELSE (224 - PortP3(q, 0)) + low
         /\ X' = IF activeLow THEN UnpackActiveLow(ClearedX, p2_val', p3_val')
                 ELSE UnpackActiveHigh(ClearedX, p2_val', p3_val')
    /\ decimal_value' = bits_to_decimal(get_S_from_X(X', HAMMING_R), HAMMING_R)
    /\ q_at_p2' = q /\ q_at_p3' = q
    /\ rx_pc' = "r_filter"
    /\ UNCHANGED <<sample_flag, rx_EA, n_samples, tx_steps_in_gap>>
    /\ RxFrame

NextEnc == Enc_process_nibble \/ Enc_receive

SpecEnc == InitEnc /\ [][NextEnc]_vars

(* ------------------ single functions on chosen arguments --------------- *)
Words16 == 0 .. 65535
Bytes8 == 0 .. 255

\* bus states a single process_nibble call is applied to: every 15-bit vector
\* with at most MaxBusWeight lines set (each is reachable: a call toggles
\* any one line)
FnBusStates == {x \in 0 .. BUS_STATE_MASK : Weight(x) <= MaxBusWeight}

\* process_nibble lines 165-183 as a function of the state it finds (the
\* chain holding that state) and its argument: the state it leaves and the
\* word it latches
process_nibble(bus, v) ==
    LET nb == MaskBus(DifferentialUpdate(bus, CorrectionFor(bus, v)))
    IN  <<nb, ShiftOut(bus, Snapshot(nb), HAMMING_N - 1)>>

\* contents X may have before a call: cleared, or whatever the stack held
PrevX == {ClearedX, [i \in 0 .. (HAMMING_N - 1) |-> 255]}

\* the unpacking done on the array as it was found
read_X_from_bus_no_memset(x0, p2, p3) == UnpackActiveLow(x0, p2, p3)

\* read_X_from_bus lines 54-95 (active-low) as a function of the array it is
\* given and of the two port values it reads
read_X_from_bus(x0, p2, p3) ==
    UnpackActiveLow([i \in DOMAIN x0 |-> 0], p2, p3)

\* read_X_from_bus lines 15-43 (active-high)
read_X_from_bus_active_high(x0, p2, p3) ==
    UnpackActiveHigh([i \in DOMAIN x0 |-> 0], p2, p3)

\* a function call leaves the program state alone
FnFrame == UNCHANGED <<fw, memVars, sfrVars, cpuVars, isr_pc, pinVars,
                       runVars, rxVars, tx_steps_in_gap, xVars, hoVars,
                   hexVars, bufVars>>

InitFn ==
    /\ fw = "h1"
    /\ pc = "fn"
    /\ InitCommon

Fn_compute_syndrome_from_bus ==
    /\ pc = "fn" /\ call = "none"
    /\ \E x \in Words16 :
         /\ arg' = <<x>>
         /\ result' = compute_syndrome_from_bus(x)
    /\ call' = "compute_syndrome_from_bus"
    /\ FnFrame

Fn_find_minimal_w ==
    /\ pc = "fn" /\ call = "none"
    /\ \E t \in Bytes8 :
         /\ arg' = <<t>>
         /\ result' = find_minimal_w(t)
    /\ call' = "find_minimal_w"
    /\ FnFrame

Fn_process_nibble ==
    /\ pc = "fn" /\ call = "none"
    /\ \E bus \in FnBusStates, v \in Bytes8 :
         /\ arg' = <<bus, v>>
         /\ result' = process_nibble(bus, v)
    /\ call' = "process_nibble"
    /\ FnFrame

Fn_read_X_from_bus ==
    /\ pc = "fn" /\ call = "none"
    /\ \E x0 \in PrevX, p2 \in Bytes8, p3 \in Bytes8 :
         /\ arg' = <<x0, p2, p3>>
         /\ result' = read_X_from_bus(x0, p2, p3)
    /\ call' = "read_X_from_bus"
    /\ FnFrame

NextFn ==
    \/ Fn_compute_syndrome_from_bus
    \/ Fn_find_minimal_w
    \/ Fn_process_nibble
    \/ Fn_read_X_from_bus

SpecFn == InitFn /\ [][NextFn]_vars

(* ------------- output_to_shift_registers called on its own ------------- *)
\* bus states the function is called with
OutBusStates == {0, 1, 1024, 16384, 21845, BUS_STATE_MASK}

InitOut ==
    /\ fw = "h1"
    /\ pc = "out"
    /\ InitCommon

\* a call of output_to_shift_registers (shift_output.c lines 77-121) with
\* the interrupt enables and the bus state the caller has at that moment; the
\* UART is receiving (UART_Init)
Out_Call ==
    /\ fw = "h1" /\ pc = "out" /\ call = "none"
    /\ \E ea \in BOOLEAN, es \in BOOLEAN, bus \in OutBusStates :
         /\ EA' = ea /\ ES' = es
         /\ current_bus_state' = bus
         /\ arg' = <<ea, bus>>
    /\ REN' = TRUE
    /\ call' = "output_to_shift_registers"
    /\ result' = <<>>
    /\ pc' = "o_save" /\ ret' = "out"
    /\ UNCHANGED <<RI, TI, SBUF>>
    /\ UNCHANGED <<buffer_flag, tx_flag, buffer_count, tx_temp_byte>>
    /\ UNCHANGED <<nib, rx_char, s_new, w, saved_ea, state_copy, bit_pos>>
    /\ UNCHANGED <<fw, isr_pc, pinVars, runVars, rxVars, tx_steps_in_gap,
                   xVars, hoVars,
                   hexVars, bufVars>>

OutBody ==
    \/ O_Save \/ O_Cli \/ O_Snap \/ O_Latch0 \/ O_Data \/ O_Clk1 \/ O_Clk0
    \/ O_Latch1 \/ O_Restore

NextOut == Out_Call \/ OutBody \/ TxIsr \/ UartReceive

SpecOut == InitOut /\ [][NextOut]_vars

(* ------------------- receiver: transmit_hex_uart (Rx_input.c) ---------- *)
\* values transmit_hex_uart is called with
HexValues == {0, 3, 9, 10, 15, 27, 255}

\* lines 113-122: the ASCII character of a value in 0..15
HexChar(v) == IF v <= 9 THEN 48 + v ELSE 65 + (v - 10)

HexFrame == UNCHANGED <<fw, memVars, sfrVars, cpuVars, isr_pc, pinVars,
                        runVars, sample_flag, p2_val, p3_val, X,
                        decimal_value, n_samples, q_at_p2, q_at_p3,
                        tx_steps_in_gap, xVars, hoVars, bufVars>>

InitHex ==
    /\ fw = "h1"
    /\ pc = "hex"
    /\ InitCommon

\* the receiver's serial interrupt is requested while TI is set (nothing is
\* received on this board) and is taken when EA and ES are set
RxIntPending == rx_EA /\ rx_ES /\ rx_TI
HexRuns == pc = "hex" /\ rx_isr_pc = "idle" /\ ~RxIntPending

\* a call transmit_hex_uart(v): TI = 0 is what UART_Init leaves (part_001
\* line 41), TI = 1 what a completed earlier transmission leaves; ES = 1 is
\* what UART_Init leaves (line 42); EA is the caller's
Hex_Call ==
    /\ pc = "hex" /\ call = "none"
    /\ \E v \in HexValues, ti \in BOOLEAN, es \in BOOLEAN, ea \in BOOLEAN :
         /\ hex_value' = v
         /\ rx_TI' = ti /\ rx_ES' = es /\ rx_EA' = ea
         /\ arg' = <<v, ti, es, ea>>
    /\ call' = "transmit_hex_uart"
    /\ result' = <<>>
    /\ rx_pc' = "t_mask"
    /\ hex_stage' = 1
    /\ UNCHANGED <<rx_isr_pc, uart_busy, rx_sent>>
    /\ HexFrame

\* line 106: value = value & 0x0F
T_Mask ==
    /\ HexRuns /\ rx_pc = "t_mask"
    /\ hex_value' = AndW(hex_value, 15, 8)
    /\ rx_pc' = "t_wait_ti"
    /\ UNCHANGED <<rx_ES, rx_TI, rx_EA, rx_isr_pc, uart_busy, rx_sent,
                   hex_stage, fnVars>>
    /\ HexFrame

\* lines 109, 126, 130: while (!TI); the loop is left when TI reads 1
T_WaitTI ==
    /\ HexRuns /\ rx_pc = "t_wait_ti"
    /\ rx_TI
    /\ rx_pc' = "t_clear_ti"
    /\ UNCHANGED <<rx_ES, rx_TI, rx_EA, rx_isr_pc, uart_busy, rx_sent,
                   hex_value, hex_stage, fnVars>>
    /\ HexFrame

\* lines 110, 127, 131: TI = 0
T_ClearTI ==
    /\ HexRuns /\ rx_pc = "t_clear_ti"
    /\ rx_TI' = FALSE
    /\ rx_pc' = "t_write"
    /\ UNCHANGED <<rx_ES, rx_EA, rx_isr_pc, uart_busy, rx_sent,
                   hex_value, hex_stage, fnVars>>
    /\ HexFrame

\* lines 113-122: SBUF = '0' + value or SBUF = 'A' + (value - 10)
T_WriteHex ==
    /\ HexRuns /\ rx_pc = "t_write" /\ hex_stage = 1
    /\ rx_sent' = Append(rx_sent, HexChar(hex_value))
    /\ uart_busy' = TRUE
    /\ hex_stage' = 2
    /\ rx_pc' = "t_wait_ti"
    /\ UNCHANGED <<rx_ES, rx_TI, rx_EA, rx_isr_pc, hex_value, fnVars>>
    /\ HexFrame

\* line 128: SBUF = '\r'
T_WriteCR ==
    /\ HexRuns /\ rx_pc = "t_write" /\ hex_stage = 2
    /\ rx_sent' = Append(rx_sent, CR)
    /\ uart_busy' = TRUE
    /\ hex_stage' = 3
    /\ rx_pc' = "t_wait_ti"
    /\ UNCHANGED <<rx_ES, rx_TI, rx_EA, rx_isr_pc, hex_value, fnVars>>
    /\ HexFrame

\* line 132: SBUF = '\n', and the return
T_WriteLF ==
    /\ HexRuns /\ rx_pc = "t_write" /\ hex_stage = 3
    /\ rx_sent' = Append(rx_sent, LF)
    /\ uart_busy' = TRUE
    /\ rx_pc' = "t_done"
    /\ UNCHANGED <<rx_ES, rx_TI, rx_EA, rx_isr_pc, hex_value, hex_stage,
                   fnVars>>
    /\ HexFrame

\* the UART has shifted out the byte written to SBUF and sets TI
Uart_TxDone ==
    /\ pc = "hex" /\ uart_busy
    /\ uart_busy' = FALSE
    /\ rx_TI' = TRUE
    /\ UNCHANGED <<rx_pc, rx_ES, rx_EA, rx_isr_pc, rx_sent, hex_value,
                   hex_stage, fnVars>>
    /\ HexFrame

\* the receiver's serial interrupt is taken between two instructions
RxIsr_Enter ==
    /\ pc = "hex" /\ rx_isr_pc = "idle" /\ RxIntPending
    /\ rx_isr_pc' = "i_ti"
    /\ UNCHANGED <<rx_pc, rx_ES, rx_TI, rx_EA, uart_busy, rx_sent, hex_value,
                   hex_stage, fnVars>>
    /\ HexFrame

\* UART_ISR lines 72-81 with RI = 0: if (TI) TI = 0, and the return
RxIsr_Ti ==
    /\ pc = "hex" /\ rx_isr_pc = "i_ti"
    /\ rx_TI' = FALSE
    /\ rx_isr_pc' = "idle"
    /\ UNCHANGED <<rx_pc, rx_ES, rx_EA, uart_busy, rx_sent, hex_value,
                   hex_stage, fnVars>>
    /\ HexFrame

HexMain ==
    \/ T_Mask \/ T_WaitTI \/ T_ClearTI \/ T_WriteHex \/ T_WriteCR
    \/ T_WriteLF

RxIsr == RxIsr_Enter \/ RxIsr_Ti

NextHex == Hex_Call \/ HexMain \/ RxIsr \/ Uart_TxDone

\* the processor keeps executing, a pending interrupt is served, and the
\* UART completes every byte written to SBUF
FairSpecHex ==
    /\ InitHex /\ [][NextHex]_vars
    /\ WF_vars(HexMain) /\ WF_vars(RxIsr) /\ WF_vars(Uart_TxDone)

(* ---------------- tx_handler's counter over a long line ---------------- *)
\* characters of one run of the counter
CountChars == {57, CR, LF}

CountFrame == UNCHANGED <<fw, current_bus_state, tx_flag, tx_temp_byte,
                          sfrVars, cpuVars, isr_pc, pinVars, bus_at_entry,
                          n_latch, n_clk, n_calls, last_symbol, n_commits,
                          commits_at_entry, rxVars, tx_steps_in_gap, xVars,
                          hoVars, hexVars, bufVars>>

InitCount ==
    /\ fw = "h1"
    /\ pc = "cnt"
    /\ InitCommon

\* tx_handler(c) as far as buffer_flag and buffer_count go (part_003 lines
\* 46-51 and 67-71): a terminator sets buffer_flag, a data character is
\* counted; process_nibble touches neither
Cnt_tx_handler ==
    /\ pc = "cnt" /\ n_bytes < MaxChars /\ ~buffer_flag
    /\ \E c \in CountChars :
         /\ arg' = <<c>>
         /\ IF c \in {CR, LF}
            THEN buffer_flag' = TRUE /\ buffer_count' = buffer_count
            ELSE buffer_flag' = FALSE
                 /\ buffer_count' = CountAfter(buffer_count)
    /\ call' = "tx_handler"
    /\ result' = <<buffer_count>>
    /\ n_bytes' = n_bytes + 1
    /\ CountFrame

\* main.c lines 95-115: if (buffer_flag) { buffer_flag = 0; buffer_count = 0 }
Cnt_main_reset ==
    /\ pc = "cnt" /\ buffer_flag
    /\ buffer_flag' = FALSE
    /\ buffer_count' = 0
    /\ UNCHANGED <<n_bytes, fnVars>>
    /\ CountFrame

NextCount == Cnt_tx_handler \/ Cnt_main_reset

SpecCount == InitCount /\ [][NextCount]_vars

(* ------------- block firmware: the buffering tx_handler ---------------- *)
\* characters handed to the buffering tx_handler: terminators, hex digits of
\* the three ranges and their limits, and the characters next to the ranges
BlkChars == {CR, LF, 48, 53, 57, 65, 70, 97, 102, 47, 58, 64, 71, 96, 103,
             0, 32, 255}

\* what xdata memory may hold before the first write
BlkInitialBuffers ==
    {[i \in 0 .. (MAX_BLOCKS - 1) |-> 0], [i \in 0 .. (MAX_BLOCKS - 1) |-> 255]}

\* tx_handler.c lines 11 and 20-25: the value of a hex digit, 0xFF otherwise
ParsedVal(c) ==
    IF c >= 48 /\ c <= 57 THEN c - 48
    ELSE IF c >= 65 /\ c <= 70 THEN c - 65 + 10
    ELSE IF c >= 97 /\ c <= 102 THEN c - 97 + 10
    ELSE 255

\* line 31: if (buffer_count < num_active_blocks)
HasSpaceInclusive(count, nab) == count <= nab

HasSpace(count, nab) == count < nab

BlkFrame == UNCHANGED <<fw, current_bus_state, tx_flag, tx_temp_byte,
                        sfrVars, cpuVars, isr_pc, pinVars, runVars, rxVars,
                        tx_steps_in_gap, xVars, hoVars, hexVars>>

InitBlk ==
    /\ fw = "block"
    /\ pc = "blk"
    /\ InitCommon

\* the configuration main.c of the block firmware defines: the number of
\* active blocks, and the buffer as the startup code leaves it
Blk_Config ==
    /\ pc = "blk" /\ call = "none"
    /\ \E nab \in 1 .. MAX_BLOCKS, buf \in BlkInitialBuffers :
         /\ num_active_blocks' = nab
         /\ S_input_buffer' = buf
    /\ call' = "config"
    /\ UNCHANGED <<arg, result, buffer_flag, buffer_count>>
    /\ BlkFrame

\* tx_handler(c), lines 13-17: a terminator
Blk_Terminator ==
    /\ pc = "blk" /\ call # "none"
    /\ \E c \in BlkChars :
         /\ c \in {CR, LF}
         /\ arg' = <<c>>
    /\ buffer_flag' = TRUE
    /\ call' = "tx_handler"
    /\ result' = <<-1>>
    /\ UNCHANGED <<buffer_count, bufVars>>
    /\ BlkFrame

\* tx_handler(c), lines 20-28 with parsed_val left at 0xFF
Blk_Ignored ==
    /\ pc = "blk" /\ call # "none"
    /\ \E c \in BlkChars :
         /\ c \notin {CR, LF}
         /\ ParsedVal(c) = 255
         /\ arg' = <<c>>
    /\ call' = "tx_handler"
    /\ result' = <<-1>>
    /\ UNCHANGED <<buffer_flag, buffer_count, bufVars>>
    /\ BlkFrame

\* tx_handler(c), lines 20-41 for a hex digit; result is the index written,
\* -1 when nothing is written
Blk_Hex ==
    /\ pc = "blk" /\ call # "none"
    /\ \E c \in BlkChars :
         /\ c \notin {CR, LF}
         /\ ParsedVal(c) # 255
         /\ arg' = <<c>>
         /\ IF HasSpace(buffer_count, num_active_blocks)
            THEN /\ S_input_buffer' =
                      IF buffer_count \in DOMAIN S_input_buffer
                      THEN [S_input_buffer EXCEPT
                               ![buffer_count] = ParsedVal(c)]
                      ELSE S_input_buffer
                 /\ buffer_count' = U8(buffer_count + 1)
                 /\ result' = <<buffer_count>>
            ELSE /\ UNCHANGED <<S_input_buffer, buffer_count>>
                 /\ result' = <<-1>>
    /\ buffer_flag' = IF buffer_count' >= num_active_blocks THEN TRUE
                      ELSE buffer_flag
    /\ call' = "tx_handler"
    /\ UNCHANGED num_active_blocks
    /\ BlkFrame

NextBlk == Blk_Config \/ Blk_Terminator \/ Blk_Ignored \/ Blk_Hex

SpecBlk == InitBlk /\ [][NextBlk]_vars

(* ============================== properties ============================= *)
\* the 15 bus lines of a latched output word, and the 11 lines the receiver
\* reads
Lines15(qv) == qv % (2 ^ HAMMING_N)
Lines11(qv) == qv % (2 ^ 11)

RECURSIVE XLinesFrom(_, _)
XLinesFrom(xv, i) ==
    IF i = 11 THEN 0 ELSE xv[i] * (2 ^ i) + XLinesFrom(xv, i + 1)

\* the sampled vector on the lines the receiver reads, as a number
XLines(xv) == XLinesFrom(xv, 0)

RECURSIVE XVectorFrom(_, _, _)
XVectorFrom(xs, n, i) ==
    IF i = n THEN 0 ELSE XData(xs, i) * (2 ^ i) + XVectorFrom(xs, n, i + 1)

\* the vector transmit_X_to_shift_reg is given, as a number
XVector(xs, n) == XVectorFrom(xs, n, 0)

\* positions of main inside output_to_shift_registers from the snapshot on
ShiftSection ==
    {"o_latch0", "o_data", "o_clk1", "o_clk0", "o_latch1"}

\* positions of main inside process_nibble after its read of
\* current_bus_state and before the commit has completed
AfterReadBeforeCommitDone ==
    /\ fw = "h1"
    /\ \/ pc \in {"pn_xor", "pn_mask"}
       \/ ret = "pn" /\ pc \in ({"o_save", "o_cli", "o_snap"} \cup ShiftSection)

ClockRise == CLK_PIN = 0 /\ CLK_PIN' = 1
LatchRise == LATCH_PIN = 0 /\ LATCH_PIN' = 1

\* a commit function returns
CommitReturns ==
    \/ pc = "o_restore" /\ pc' # "o_restore"
    \/ x_pc = "x_latch0" /\ x_pc' = "x_idle"

BitsToSend == IF fw = "h1" THEN HAMMING_N ELSE total_bits

VectorToSend ==
    IF fw = "h1" THEN state_copy ELSE XVector(X_stream_output, total_bits)

\* C1: differential invariant. After every process_nibble call, from the
\* zero state on, the syndrome of current_bus_state equals the symbol just
\* encoded, masked to 4 bits.
C1_DifferentialInvariant ==
    n_calls > 0 =>
        compute_syndrome_from_bus(current_bus_state) = AndW(last_symbol, 15, 8)

C1_Witness ==
    /\ n_calls >= 2 /\ last_symbol = 11
    /\ bus_at_entry # 0 /\ current_bus_state # bus_at_entry

\* C2: minimal transition. The Hamming distance between current_bus_state
\* before and after a process_nibble call is at most 1, and it is 0 exactly
\* when the 4-bit symbol encoded equals the syndrome of the state before.
C2_MinimalTransition ==
    n_calls > 0 =>
        LET d == Weight(XorW(bus_at_entry, current_bus_state, 16))
        IN  /\ d <= 1
            /\ (d = 0) <=> (s_new = compute_syndrome_from_bus(bus_at_entry))

C2_Witness ==
    /\ n_calls >= 2 /\ bus_at_entry # 0
    /\ current_bus_state = bus_at_entry

\* C3: round trip. The symbol the receiver decodes from a sample of the
\* latched, polarity-normalized bus lines equals the last symbol encoded.
C3_RoundTrip ==
    (n_calls > 0 /\ rx_pc = "r_filter") =>
        decimal_value = AndW(last_symbol, 15, 8)

\* C4: every process_nibble call, once started, reaches its return, and at
\* the return exactly one latch pulse has been produced in the call and the
\* latched outputs hold the post-update vector, also when w = 0.
C4_OneCommitPerCall ==
    /\ [](pc = "pn_ret" =>
            /\ n_latch = 1
            /\ current_bus_state = MaskBus(XorW(bus_at_entry, w, 16))
            /\ Lines15(q) = current_bus_state)
    /\ [](AfterReadBeforeCommitDone => n_latch = 0 \/ pc = "o_latch1")
    /\ (pc = "pn_read" ~> pc = "pn_ret")

C4_Witness ==
    /\ pc = "pn_ret" /\ w = 0 /\ n_latch = 1
    /\ n_calls >= 2 /\ current_bus_state # 0

\* C5 as stated: no interrupt handler runs between process_nibble's read of
\* current_bus_state and the completion of the commit.
C5_Indivisible ==
    AfterReadBeforeCommitDone => isr_pc = "idle"

\* C5 as amended: no interrupt handler runs between the snapshot and the
\* completion of the commit, and a handler that runs earlier in the call
\* leaves current_bus_state as process_nibble read it, so the state written
\* is the state read toggled by w.
C5_CommitSectionOnly ==
    /\ (fw = "h1" /\ pc \in ShiftSection) => isr_pc = "idle"
    /\ pc = "pn_xor" => current_bus_state = bus_at_entry
    /\ pc = "pn_mask" => current_bus_state = XorW(bus_at_entry, w, 16)
    /\ (ret = "pn" /\ pc \in ({"o_save", "o_cli", "o_snap", "o_restore"}
                              \cup ShiftSection))
          => current_bus_state = MaskBus(XorW(bus_at_entry, w, 16))

C5_Witness ==
    /\ isr_pc = "i_flag" /\ pc = "pn_xor" /\ w # 0

\* C6: while output_to_shift_registers shifts, interrupts are disabled, no
\* handler runs, state_copy is the snapshot of current_bus_state, and every
\* bit driven and shifted so far is a bit of that one snapshot.
C6_SingleSnapshot ==
    /\ (fw = "h1" /\ pc = "o_snap") => (~EA /\ isr_pc = "idle")
    /\ (fw = "h1" /\ pc \in ShiftSection) =>
        /\ ~EA /\ isr_pc = "idle"
        /\ state_copy = Snapshot(current_bus_state)
        /\ pc \in {"o_clk1"} => DATA_PIN = Bit(state_copy, bit_pos)
        /\ pc \in {"o_data", "o_clk1", "o_clk0", "o_latch1"} =>
              sr % (2 ^ n_clk) = state_copy \div (2 ^ (HAMMING_N - n_clk))

C6_Witness ==
    /\ pc = "o_clk0" /\ n_clk = 7 /\ RI /\ ES /\ state_copy # 0

\* C7: no partial-vector visibility. In both commit functions the latch line
\* is low at every rising clock edge; the latch rises only after all bits
\* were clocked in, once per call; the latched outputs change only at that
\* edge and then hold the complete vector.
C7_NoPartialVector ==
    [][ /\ ClockRise => (LATCH_PIN = 0 /\ LATCH_PIN' = 0)
        /\ LatchRise => /\ n_clk = BitsToSend
                        /\ n_latch = 0
                        /\ q' % (2 ^ BitsToSend) = VectorToSend
        /\ q' # q => LatchRise
        /\ CommitReturns => n_latch = 1 ]_vars

C7_Witness ==
    /\ fw = "h1" /\ pc = "o_restore" /\ ret = "pn" /\ n_latch = 1
    /\ n_calls >= 2 /\ Lines15(q) = state_copy /\ state_copy # 0

\* C8: most-significant-first. output_to_shift_registers produces exactly 15
\* rising clock edges, DATA_PIN at the k-th being bit 15 - k of the snapshot;
\* transmit_X_to_shift_reg produces exactly total_bits, the data line at the
\* k-th set from X_stream_output[total_bits - k].
C8_MsbFirst ==
    [][ /\ ClockRise =>
            /\ n_clk' <= BitsToSend
            /\ DATA_PIN = IF fw = "h1"
                          THEN Bit(state_copy, HAMMING_N - n_clk')
                          ELSE XData(X_stream_output, total_bits - n_clk')
        /\ CommitReturns => n_clk = BitsToSend ]_vars

C8_Witness ==
    /\ fw = "block" /\ x_pc = "x_latch0" /\ n_clk = total_bits
    /\ total_bits >= 2
    /\ X_stream_output[1] # 0 /\ X_stream_output[2] = 0
    /\ q % 4 = 1

C10_BusWidth ==
    AndW(current_bus_state, 65535 - BUS_STATE_MASK, 16) = 0

C10_Witness ==
    /\ pc = "pn_mask" /\ Bit(current_bus_state, HAMMING_N - 1) = 1
    /\ w = 2 ^ (HAMMING_N - 1)

\* C11: mask-don't-fail. For every 8-bit argument v and bus state,
\* process_nibble(v) leaves the state and latches the word that
\* process_nibble(v & 0x0F) does, a state within the bus width; and
\* find_minimal_w(t) equals find_minimal_w(t & 0x0F) for every 8-bit t.
C11_MaskDontFail ==
    /\ call = "process_nibble" =>
          /\ result = process_nibble(arg[1], AndW(arg[2], 15, 8))
          /\ result[1] \in 0 .. BUS_STATE_MASK
    /\ call = "find_minimal_w" =>
          result = find_minimal_w(AndW(arg[1], 15, 8))

C11_Witness ==
    /\ call = "process_nibble" /\ arg[2] = 251
    /\ Weight(arg[1]) = 2 /\ result[1] # arg[1]

\* the XOR of (j+1) over the set bits j in 0..14 of x, bit by bit: bit k is
\* the parity of the number of set bits j whose column j+1 has bit k
ColumnParity(x, k) ==
    Cardinality({j \in 0 .. (HAMMING_N - 1) :
                    Bit(x, j) = 1 /\ Bit(j + 1, k) = 1}) % 2

XorOfColumns(x) ==
    ColumnParity(x, 0) + 2 * ColumnParity(x, 1)
        + 4 * ColumnParity(x, 2) + 8 * ColumnParity(x, 3)

\* C12: syndrome correctness. For every 16-bit x,
\* compute_syndrome_from_bus(x) is the XOR of (j+1) over the set bits j in
\* 0..14 of x, is the same with bit 15 flipped, and lies in 0..15.
C12_SyndromeCorrect ==
    call = "compute_syndrome_from_bus" =>
        /\ result = XorOfColumns(arg[1])
        /\ result = compute_syndrome_from_bus(XorW(arg[1], 32768, 16))
        /\ result \in 0 .. 15

C12_Witness ==
    /\ call = "compute_syndrome_from_bus"
    /\ arg[1] = 32768 + 1024 + 1 /\ result = 10

\* the 15-bit vectors of weight at most 1
WeightAtMostOne == {0} \cup {2 ^ j : j \in 0 .. (HAMMING_N - 1)}

\* C13: minimality. For every t in 0..15, find_minimal_w(t) has weight 0 if
\* t = 0 and else exactly one set bit, at position t - 1; its syndrome is t;
\* and no other bus vector of weight at most 1 has syndrome t.
C13_Minimality ==
    (call = "find_minimal_w" /\ arg[1] <= 15) =>
        /\ Weight(result) = IF arg[1] = 0 THEN 0 ELSE 1
        /\ arg[1] # 0 => Bit(result, arg[1] - 1) = 1
        /\ compute_syndrome_from_bus(result) = arg[1]
        /\ \A v \in WeightAtMostOne :
              compute_syndrome_from_bus(v) = arg[1] => v = result

C13_Witness ==
    call = "find_minimal_w" /\ arg[1] = 15 /\ result = 2 ^ (HAMMING_N - 1)

\* C14: concrete scenario. From the zero state process_nibble(0xB) leaves
\* current_bus_state = 0x0400, whose syndrome is 0xB, and latches it; a second
\* process_nibble(0xB) computes w = 0 and leaves 0x0400.
C14_ScenarioB ==
    /\ (n_calls = 1 /\ last_symbol = 11) =>
          /\ bus_at_entry = 0 /\ w = 1024
          /\ current_bus_state = 1024
          /\ compute_syndrome_from_bus(current_bus_state) = 11
          /\ Lines15(q) = 1024
    /\ (n_calls = 2 /\ last_symbol = 11 /\ bus_at_entry = 1024) =>
          /\ w = 0
          /\ current_bus_state = 1024
          /\ Lines15(q) = 1024

C14_Witness ==
    /\ n_calls = 2 /\ last_symbol = 11 /\ bus_at_entry = 1024
    /\ current_bus_state = 1024 /\ n_latch = 1

\* C15: purely differential update. A process_nibble(s_new) call on a state
\* of syndrome s_old leaves every bit of current_bus_state as it was, except
\* bit ((s_new XOR s_old) - 1), inverted, when s_new differs from s_old.
C15_Differential ==
    n_calls > 0 =>
        LET s_old == compute_syndrome_from_bus(bus_at_entry)
            t     == XorW(AndW(last_symbol, 15, 8), s_old, 8)
        IN  \A j \in 0 .. 15 :
                Bit(current_bus_state, j) =
                    IF t # 0 /\ j = t - 1 THEN 1 - Bit(bus_at_entry, j)
                    ELSE Bit(bus_at_entry, j)

\* a call whose result is not the vector its symbol alone would give: the
\* symbol 5 on 0x0400 (syndrome 0xB) toggles bit 13 and leaves 0x2400, while
\* on the zero state it leaves 0x0010
C15_Witness ==
    /\ n_calls = 2 /\ last_symbol = 5 /\ bus_at_entry = 1024
    /\ current_bus_state = 1024 + 8192
    /\ current_bus_state # find_minimal_w(5)

\* C16: startup. Until the first latch edge the bus vector is zero, with
\* syndrome 0, and no symbol has been encoded; the first latch edge puts the
\* all-zero vector on the outputs, and it comes before any process_nibble
\* call.
C16_StartupZero ==
    /\ []((fw = "h1" /\ n_commits = 0) =>
            /\ current_bus_state = 0
            /\ compute_syndrome_from_bus(current_bus_state) = 0
            /\ n_calls = 0)
    /\ [][(fw = "h1" /\ n_commits = 0 /\ n_commits' = 1) =>
            /\ ret = "main" /\ state_copy = 0
            /\ Lines15(q') = 0
            /\ n_calls' = 0]_vars

C16_Witness ==
    /\ fw = "h1" /\ pc = "m_test_tx" /\ n_commits = 1 /\ n_calls = 0
    /\ tx_flag /\ Lines15(q) = 0 /\ current_bus_state = 0

\* C17: high nibble first. In a tx_handler(c) call on a non-terminator c no
\* commit precedes the first process_nibble call; when that call returns
\* exactly one commit was made in the handler, of a vector with syndrome
\* (c >> 4) & 0x0F; when the second returns exactly two were made, the last
\* of a vector with syndrome c & 0x0F; and the handler makes no further one.
C17_HighThenLow ==
    /\ pc = "h_check" => n_commits = commits_at_entry
    /\ (pc = "pn_read" /\ nib = "hi") => n_commits = commits_at_entry
    /\ (pc = "pn_ret" /\ nib = "hi") =>
          /\ n_commits = commits_at_entry + 1
          /\ compute_syndrome_from_bus(Lines15(q))
                = AndW(rx_char \div 16, 15, 8)
    /\ (pc = "pn_read" /\ nib = "lo") => n_commits = commits_at_entry + 1
    /\ (pc = "pn_ret" /\ nib = "lo") =>
          /\ n_commits = commits_at_entry + 2
          /\ compute_syndrome_from_bus(Lines15(q)) = AndW(rx_char, 15, 8)
    /\ pc = "h_count" =>
          /\ rx_char # CR /\ rx_char # LF
          /\ n_commits = commits_at_entry + 2
          /\ compute_syndrome_from_bus(Lines15(q)) = AndW(rx_char, 15, 8)

C17_Witness ==
    /\ pc = "h_count" /\ rx_char = 165 /\ n_calls = 4
    /\ n_commits = commits_at_entry + 2
    /\ compute_syndrome_from_bus(Lines15(q)) = 5

\* C18: terminators. The step of tx_handler on '\r' or '\n' sets buffer_flag
\* and returns to main with no commit made in the call, leaving
\* current_bus_state, the chain, its latched outputs and buffer_count as
\* they were, and no process_nibble call is made.
C18_TerminatorNoTransmission ==
    [][(pc = "h_check" /\ pc' # pc /\ (rx_char = CR \/ rx_char = LF)) =>
          /\ buffer_flag'
          /\ pc' = "m_test_buf"
          /\ current_bus_state' = current_bus_state
          /\ sr' = sr /\ q' = q
          /\ n_commits' = n_commits /\ n_commits = commits_at_entry
          /\ n_calls' = n_calls
          /\ buffer_count' = buffer_count]_vars

C18_Witness ==
    /\ pc = "m_test_buf" /\ rx_char = LF /\ buffer_flag
    /\ n_calls = 2 /\ buffer_count = 2 /\ current_bus_state # 0
    /\ n_commits = commits_at_entry

\* the port value with line j reading the other way
FlipBit(x, j) == IF Bit(x, j) = 1 THEN x - 2 ^ j ELSE x + 2 ^ j

\* C19: the vector read_X_from_bus returns is a function of the two port
\* values alone. In the active-low variant X[i] is 1 exactly when its line
\* (P2.i for i = 0..7, P3.5-P3.7 for i = 8..10) reads low, X[11..14] are 0,
\* the same vector is returned whatever X held before the call and when any
\* one of P3 bits 0..4 reads the other way (every P3 value is an input, so
\* this chains to any reading of those five bits), and the active-high variant returns the complement
\* on X[0..10] for the same port values.
C19_SampleIsPureFunction ==
    (call = "read_X_from_bus") =>
        LET x0 == arg[1]
            p2 == arg[2]
            p3 == arg[3]
            high == read_X_from_bus_active_high(x0, p2, p3)
        IN  /\ DOMAIN result = 0 .. (HAMMING_N - 1)
            /\ \A i \in 0 .. 7 : result[i] = 1 <=> Bit(p2, i) = 0
            /\ \A i \in 8 .. 10 : result[i] = 1 <=> Bit(p3, i - 3) = 0
            /\ \A i \in 0 .. 10 : result[i] \in {0, 1}
            /\ \A i \in 11 .. (HAMMING_N - 1) : result[i] = 0
            /\ \A prev \in PrevX : read_X_from_bus(prev, p2, p3) = result
            /\ \A j \in 0 .. 4 :
                 read_X_from_bus(x0, p2, FlipBit(p3, j)) = result
            /\ \A i \in 0 .. 10 : result[i] + high[i] = 1

\* P2 = 0xFE and P3 = 0xDF with bits 0..4 reading 1: lines 0 and 8 are low,
\* and X held 255 everywhere before the call
C19_Witness ==
    /\ call = "read_X_from_bus"
    /\ arg[1][11] = 255
    /\ arg[2] = 254
    /\ arg[3] = 223
    /\ result = [i \in 0 .. (HAMMING_N - 1) |->
                    IF i \in {0, 8} THEN 1 ELSE 0]

\* receiver main lines 99-115 without the timer: the statements the
\* receiver's processor executes one after the other
RxMain ==
    \/ R_Test \/ R_Clear \/ R_Memset \/ R_ReadP2 \/ R_ReadP3
    \/ R_Sti \/ R_Unpack \/ R_Decode \/ R_Filter \/ R_StiMain

\* the two boards with a receiver whose main loop keeps executing
FairSpecRx == Init /\ [][Next]_vars /\ WF_vars(RxMain)

\* C20: every sample the receiver main loop consumes (sample_flag found set
\* at line 99) is read and decoded, also when the decoded value is 0; the
\* filter then calls transmit_hex_uart once, with the decoded value, when
\* that value is nonzero, and goes to the end of the body without a call
\* when it is zero; transmit_hex_uart is entered from nowhere else.
C20_EverySampleDecoded ==
    /\ [](rx_pc = "r_filter" =>
            /\ X = read_X_from_bus(X, p2_val, p3_val)
            /\ decimal_value =
                   bits_to_decimal(get_S_from_X(X, HAMMING_R), HAMMING_R))
    /\ [][(rx_pc = "r_filter" /\ rx_pc' # rx_pc) =>
            /\ decimal_value' = decimal_value
            /\ rx_pc' = IF decimal_value # 0 THEN "t_wait_ti"
                        ELSE "r_sti_main"]_vars
    /\ [][(rx_pc' = "t_wait_ti" /\ rx_pc # "t_wait_ti") =>
            (rx_pc = "r_filter" /\ decimal_value # 0)]_vars
    /\ (rx_pc = "r_clear") ~> (rx_pc = "r_filter")
    /\ (rx_pc = "r_filter" /\ decimal_value # 0) ~> (rx_pc = "t_wait_ti")
    /\ (rx_pc = "r_filter" /\ decimal_value = 0) ~> (rx_pc = "r_wait")

\* the one sample of the run decoded to 3 and transmit_hex_uart was entered
\* with it
C20_Witness ==
    /\ rx_pc = "t_wait_ti"
    /\ n_samples = 1
    /\ ~sample_flag
    /\ decimal_value = 3
    /\ decimal_value = bits_to_decimal(get_S_from_X(X, HAMMING_R), HAMMING_R)

\* C21: the bytes handed to tx_handler are the bytes UART_ISR received, each
\* once and in arrival order: at every moment the sequence of tx_handler
\* arguments is a prefix of the sequence of bytes the ISR copied from SBUF
\* (a byte handed over twice, out of order, or in place of a dropped one
\* breaks the prefix).
C21_HandedOverOnce ==
    /\ Len(handled_bytes) <= Len(isr_bytes)
    /\ \A i \in 1 .. Len(handled_bytes) :
         i <= Len(isr_bytes) => handled_bytes[i] = isr_bytes[i]

\* the receiver main loop's section from clearing sample_flag (line 102) up
\* to, and not including, main's own EA = 1 (line 115)
RxCriticalSection ==
    {"r_clear", "r_memset", "r_read_p2", "r_read_p3", "r_sti", "r_unpack",
     "r_decode", "r_filter", "t_wait_ti", "r_sti_main"}

\* C22: in the receiver main loop interrupts stay disabled from the clearing
\* of sample_flag through read_X_from_bus, decoding and transmit_hex_uart,
\* until main itself sets EA = 1: no callee re-enables them inside.
C22_SectionKeepsInterruptsOff ==
    rx_pc \in RxCriticalSection => ~rx_EA

\* positions of output_to_shift_registers after its EA = 0 and before its
\* EA = saved_ea: the snapshot, the shifting and the latching
OutCriticalSection == {"o_snap", "o_restore"} \cup ShiftSection

C24_TransmitTerminates ==
    (call = "transmit_hex_uart") ~>
        (/\ rx_pc = "t_done"
         /\ rx_sent = <<HexChar(arg[1] % 16), CR, LF>>)

\* C25: in the nibble-splitting tx_handler the 8-bit counter buffer_count
\* never wraps: every data character leaves it at least as large as it was
\* (it saturates), whatever was counted before; only main's reset after a
\* terminator brings it down.
C25_CountSaturates ==
    [][(pc = "cnt" /\ n_bytes' = n_bytes + 1 /\ arg'[1] \notin {CR, LF})
          => buffer_count' >= buffer_count]_vars

\* the characters the buffering tx_handler takes for hex digits
IsHexDigit(c) == c \in ((48 .. 57) \cup (65 .. 70) \cup (97 .. 102))

\* C26: in the buffering tx_handler, after any sequence of characters
\* buffer_count <= num_active_blocks, and every write to S_input_buffer uses
\* an index below num_active_blocks, hence below MAX_BLOCKS; a character that
\* is neither a hex digit nor a terminator changes neither the buffer, nor
\* buffer_count, nor buffer_flag; buffer_flag is set whenever the buffer
\* holds num_active_blocks symbols; a hex digit arriving while the buffer is
\* full is not stored.
C26_BufferBounded ==
    /\ []((pc = "blk" /\ call # "none") =>
            /\ buffer_count <= num_active_blocks
            /\ buffer_count = num_active_blocks => buffer_flag)
    /\ []((pc = "blk" /\ call = "tx_handler" /\ result[1] # -1) =>
            /\ result[1] < num_active_blocks
            /\ result[1] < MAX_BLOCKS
            /\ S_input_buffer[result[1]] = ParsedVal(arg[1]))
    /\ [][(pc = "blk" /\ call' = "tx_handler" /\ call # "none"
           /\ ~IsHexDigit(arg'[1]) /\ arg'[1] \notin {CR, LF}) =>
             /\ S_input_buffer' = S_input_buffer
             /\ buffer_count' = buffer_count
             /\ buffer_flag' = buffer_flag]_vars
    /\ [][(pc = "blk" /\ call' = "tx_handler" /\ call # "none"
           /\ IsHexDigit(arg'[1])
           /\ buffer_count = num_active_blocks) =>
             /\ S_input_buffer' = S_input_buffer
             /\ buffer_count' = buffer_count
             /\ result'[1] = -1]_vars
    /\ [][(pc = "blk" /\ call' = "tx_handler" /\ call # "none"
           /\ IsHexDigit(arg'[1])
           /\ buffer_count < num_active_blocks) =>
             /\ result'[1] = buffer_count
             /\ buffer_count' = buffer_count + 1]_vars

\* four blocks, the buffer filled by '0', '9', 'A', 'f' over memory that held
\* 255, and a fifth digit 'F' that was not stored
C26_Witness ==
    /\ pc = "blk" /\ call = "tx_handler"
    /\ num_active_blocks = MAX_BLOCKS
    /\ arg = <<70>>
    /\ result = <<-1>>
    /\ buffer_count = MAX_BLOCKS
    /\ buffer_flag
    /\ S_input_buffer = [i \in 0 .. (MAX_BLOCKS - 1) |->
                            IF i = 0 THEN 0 ELSE IF i = 1 THEN 9
                            ELSE IF i = 2 THEN 10 ELSE 15]

\* the transmitter alone under the scheduling the liveness part of C4 rests
\* on: the CPU keeps executing, in the main program and in the interrupt
\* handler
FairSpecTx ==
    /\ InitTx /\ [][NextTx]_vars
    /\ WF_vars(TxMain) /\ WF_vars(TxIsr)

=============================================================================
